---- MODULE Spec2Model ----
\* A model of the mailin SMTP session engine: the line parser
\* (mailin/src/parser.rs), the response constants (mailin/src/lib.rs,
\* mailin/src/smtp.rs, mailin/src/response.rs), the per-phase state machine
\* (mailin/src/fsm.rs) and the session facade (mailin/src/smtp.rs), driven by
\* the embedder the way mailin-embedded/src/running.rs drives it.
EXTENDS Integers, Sequences, FiniteSets, TLC

\* ---------------------------------------------------------------------------
\* Bytes.  A line is a sequence of bytes; a byte is written as a one-character
\* string.  Decoded base64 data is a sequence of byte values 0..255.
\* ---------------------------------------------------------------------------

CR == "\r"

LF == "\n"

Base64Alphabet ==
  << "A", "B", "C", "D", "E", "F", "G", "H", "I", "J", "K", "L", "M", "N", "O", "P",
     "Q", "R", "S", "T", "U", "V", "W", "X", "Y", "Z", "a", "b", "c", "d", "e", "f",
     "g", "h", "i", "j", "k", "l", "m", "n", "o", "p", "q", "r", "s", "t", "u", "v",
     "w", "x", "y", "z", "0", "1", "2", "3", "4", "5", "6", "7", "8", "9", "+", "/" >>

LowerCase ==
  ("A" :> "a") @@ ("B" :> "b") @@ ("C" :> "c") @@ ("D" :> "d") @@ ("E" :> "e") @@
  ("F" :> "f") @@ ("G" :> "g") @@ ("H" :> "h") @@ ("I" :> "i") @@ ("J" :> "j") @@
  ("K" :> "k") @@ ("L" :> "l") @@ ("M" :> "m") @@ ("N" :> "n") @@ ("O" :> "o") @@
  ("P" :> "p") @@ ("Q" :> "q") @@ ("R" :> "r") @@ ("S" :> "s") @@ ("T" :> "t") @@
  ("U" :> "u") @@ ("V" :> "v") @@ ("W" :> "w") @@ ("X" :> "x") @@ ("Y" :> "y") @@
  ("Z" :> "z")

to_lower(c) == IF c \in DOMAIN LowerCase THEN LowerCase[c] ELSE c

Range(s) == { s[i] : i \in 1..Len(s) }

\* ---------------------------------------------------------------------------
\* The nom combinators parser.rs is built from.  A parser result is either
\* Err or [ok |-> TRUE, rest |-> remaining input, val |-> parsed value].
\* ---------------------------------------------------------------------------

Err == [ok |-> FALSE]

Done(rest, val) == [ok |-> TRUE, rest |-> rest, val |-> val]

Skip(buf, n) == SubSeq(buf, n + 1, Len(buf))

\* nom::bytes::complete::tag
tag(t, buf) ==
  IF Len(buf) >= Len(t) /\ SubSeq(buf, 1, Len(t)) = t
  THEN Done(Skip(buf, Len(t)), t)
  ELSE Err

\* nom::bytes::complete::tag_no_case
tag_no_case(t, buf) ==
  IF Len(buf) >= Len(t) /\ \A i \in 1..Len(t) : to_lower(buf[i]) = to_lower(t[i])
  THEN Done(Skip(buf, Len(t)), SubSeq(buf, 1, Len(t)))
  ELSE Err

\* Length of the longest prefix of buf whose bytes all lie in (inside = TRUE)
\* or all lie outside (inside = FALSE) the set chars.
Span(chars, inside, buf) ==
  CHOOSE n \in 0..Len(buf) :
    /\ \A i \in 1..n : (buf[i] \in chars) = inside
    /\ n < Len(buf) => (buf[n + 1] \in chars) # inside

\* The result of a parser that takes the first n bytes, and needs one at least
split_at(buf, n) == IF n = 0 THEN Err ELSE Done(Skip(buf, n), SubSeq(buf, 1, n))

\* nom::bytes::complete::take_while1 over a set of bytes
take_while1(chars, buf) == split_at(buf, Span(chars, TRUE, buf))

\* nom::bytes::complete::is_not
is_not(chars, buf) == split_at(buf, Span(chars, FALSE, buf))

\* Sequencing, as in nom::sequence (pair, preceded, terminated,
\* separated_pair): the parser F goes on from the result r of the one before
and_then(r, F(_)) == IF r.ok THEN F(r) ELSE Err

\* nom::branch::alt of two parsers, by their results on the same input
alt(r, other) == IF r.ok THEN r ELSE other

\* nom::combinator::map
map(r, F(_)) == IF r.ok THEN Done(r.rest, F(r.val)) ELSE Err

\* nom::combinator::value
value(v, r) == IF r.ok THEN Done(r.rest, v) ELSE Err

\* let: the value v under a name in F
bind(v, F(_)) == F(v)

\* The byte 0xff stands for every byte sequence that is not UTF-8.
NotUtf8 == "\\xff"

from_utf8_ok(bytes) == NotUtf8 \notin Range(bytes)

\* map_res(p, str::from_utf8)
utf8(r) == IF r.ok /\ from_utf8_ok(r.val) THEN r ELSE Err

\* ---------------------------------------------------------------------------
\* mailin/src/parser.rs
\* ---------------------------------------------------------------------------

\* Match one or more spaces
space(buf) == take_while1({" "}, buf)

\* Return a parser to match the given command
cmd(cmd_tag, buf) == and_then(tag_no_case(cmd_tag, buf), LAMBDA r : space(r.rest))

hello_domain(buf) == utf8(is_not({" ", "\t", CR, LF}, buf))

helo(buf) ==
  map(and_then(cmd(<<"h", "e", "l", "o">>, buf), LAMBDA p : hello_domain(p.rest)),
      LAMBDA domain : [name |-> "Helo", domain |-> domain])

ehlo(buf) ==
  map(and_then(cmd(<<"e", "h", "l", "o">>, buf), LAMBDA p : hello_domain(p.rest)),
      LAMBDA domain : [name |-> "Ehlo", domain |-> domain])

mail_path(buf) == utf8(is_not({" ", "<", ">", "\t", CR, LF}, buf))

take_all(buf) == utf8(is_not({CR, LF}, buf))

body_eq_8bit(buf) ==
  and_then(space(buf), LAMBDA s :
    and_then(tag_no_case(<<"b", "o", "d", "y", "=">>, s.rest), LAMBDA b :
      alt(value(TRUE, tag_no_case(<<"8", "b", "i", "t", "m", "i", "m", "e">>, b.rest)),
          value(FALSE, tag_no_case(<<"7", "b", "i", "t">>, b.rest)))))

is8bitmime(buf) == alt(body_eq_8bit(buf), Done(buf, FALSE))

\* One attempt of mail(): cmd("mail"), the given "from:<" tag, the path, ">"
\* and the optional BODY parameter.
mail_with(from_tag, buf) ==
  and_then(cmd(<<"m", "a", "i", "l">>, buf), LAMBDA c :
    and_then(tag_no_case(from_tag, c.rest), LAMBDA f :
      and_then(mail_path(f.rest), LAMBDA p :
        and_then(tag(<<">">>, p.rest), LAMBDA g :
          map(is8bitmime(g.rest), LAMBDA is8bit :
            [name |-> "Mail", reverse_path |-> p.val, is8bit |-> is8bit])))))

\* mail() computes r2 (the "from: <" form) when r1 fails, but the value of the
\* function is its last expression, r1.
mail(buf) ==
  LET r1 == mail_with(<<"f", "r", "o", "m", ":", "<">>, buf)
      r2 == mail_with(<<"f", "r", "o", "m", ":", " ", "<">>, buf)
  IN r1

rcpt_with(to_tag, buf) ==
  and_then(cmd(<<"r", "c", "p", "t">>, buf), LAMBDA c :
    and_then(tag_no_case(to_tag, c.rest), LAMBDA f :
      and_then(mail_path(f.rest), LAMBDA p :
        value([name |-> "Rcpt", forward_path |-> p.val], tag(<<">">>, p.rest)))))

rcpt(buf) ==
  LET r1 == rcpt_with(<<"t", "o", ":", "<">>, buf)
      r2 == rcpt_with(<<"t", "o", ":", " ", "<">>, buf)
  IN r1

\* value(c, tag_no_case(t)): the commands without parameters
bare(c, t, buf) == value([name |-> c], tag_no_case(t, buf))

data(buf) == bare("Data", <<"d", "a", "t", "a">>, buf)

rset(buf) == bare("Rset", <<"r", "s", "e", "t">>, buf)

quit(buf) == bare("Quit", <<"q", "u", "i", "t">>, buf)

noop(buf) == bare("Noop", <<"n", "o", "o", "p">>, buf)

starttls(buf) == bare("StartTls", <<"s", "t", "a", "r", "t", "t", "l", "s">>, buf)

vrfy(buf) ==
  value([name |-> "Vrfy"],
        and_then(cmd(<<"v", "r", "f", "y">>, buf), LAMBDA c : take_all(c.rest)))

is_base64 == Range(Base64Alphabet) \cup {"="}

auth_initial(buf) == and_then(space(buf), LAMBDA s : take_while1(is_base64, s.rest))

\* alt((auth_initial, empty)): the initial response, or nothing
auth_param(buf) == alt(auth_initial(buf), Done(buf, <<>>))

\* base64::decode with the standard alphabet and padding.  Every byte must be
\* of the alphabet, apart from at most two trailing "=", and the length a
\* multiple of four; anything else (CR and LF included) is a decode error.
b64_padding(param) ==
  IF Len(param) >= 2 /\ param[Len(param)] = "=" /\ param[Len(param) - 1] = "=" THEN 2
  ELSE IF Len(param) >= 1 /\ param[Len(param)] = "=" THEN 1
  ELSE 0

b64_value(c) == (CHOOSE i \in 1..Len(Base64Alphabet) : Base64Alphabet[i] = c) - 1

b64_valid(param) ==
  /\ Len(param) % 4 = 0
  /\ \A i \in 1..(Len(param) - b64_padding(param)) : param[i] \in Range(Base64Alphabet)

b64_group(param, g) ==
  LET v(k) == IF param[4 * (g - 1) + k] = "=" THEN 0 ELSE b64_value(param[4 * (g - 1) + k])
      n    == v(1) * 262144 + v(2) * 4096 + v(3) * 64 + v(4)
  IN << n \div 65536, (n \div 256) % 256, n % 256 >>

RECURSIVE b64_groups(_, _)
b64_groups(param, g) ==
  IF 4 * g > Len(param) THEN <<>>
  ELSE b64_group(param, g) \o b64_groups(param, g + 1)

base64_decode(param) ==
  IF b64_valid(param)
  THEN bind(b64_groups(param, 1), LAMBDA all :
         [ok |-> TRUE, bytes |-> SubSeq(all, 1, Len(all) - b64_padding(param))])
  ELSE [ok |-> FALSE]

\* bytes.split(|b| b == &0u8): the fields between the NUL bytes
RECURSIVE split_nul(_)
split_nul(bytes) ==
  LET n == CHOOSE k \in 0..Len(bytes) :
             /\ \A i \in 1..k : bytes[i] # 0
             /\ k < Len(bytes) => bytes[k + 1] = 0
  IN IF n = Len(bytes) THEN << bytes >>
     ELSE << SubSeq(bytes, 1, n) >> \o split_nul(Skip(bytes, n + 1))

\* The next field as a string; empty when there is none or it is not UTF-8
\* (a byte above 127 stands for invalid UTF-8).
next_string(fields, k) ==
  IF k <= Len(fields) /\ \A i \in 1..Len(fields[k]) : fields[k][i] < 128
  THEN fields[k]
  ELSE <<>>

\* Decodes the base64 encoded plain authentication parameter
decode_sasl_plain(param) ==
  bind(base64_decode(param), LAMBDA decoded :
    IF decoded.ok
    THEN bind(split_nul(decoded.bytes), LAMBDA fields :
           [authorization_id  |-> next_string(fields, 1),
            authentication_id |-> next_string(fields, 2),
            password          |-> next_string(fields, 3)])
    ELSE [authorization_id |-> <<>>, authentication_id |-> <<>>, password |-> <<>>])

\* Decodes a base64 encoded login authentication parameter
decode_sasl_login(param) ==
  bind(base64_decode(param), LAMBDA decoded :
    IF decoded.ok /\ \A i \in 1..Len(decoded.bytes) : decoded.bytes[i] < 128
    THEN decoded.bytes
    ELSE <<>>)

sasl_plain_cmd(param) ==
  IF param = <<>> THEN [name |-> "AuthPlainEmpty"]
  ELSE bind(decode_sasl_plain(param), LAMBDA creds :
         [name |-> "AuthPlain",
          authorization_id  |-> creds.authorization_id,
          authentication_id |-> creds.authentication_id,
          password          |-> creds.password])

sasl_login_cmd(param) ==
  IF param = <<>> THEN [name |-> "AuthLoginEmpty"]
  ELSE [name |-> "AuthLogin", username |-> decode_sasl_login(param)]

parse_auth_plain(buf) ==
  map(and_then(tag_no_case(<<"p", "l", "a", "i", "n">>, buf), LAMBDA t : auth_param(t.rest)),
      sasl_plain_cmd)

parse_auth_login(buf) ==
  map(and_then(tag_no_case(<<"l", "o", "g", "i", "n">>, buf), LAMBDA t : auth_param(t.rest)),
      sasl_login_cmd)

parse_auth(buf) ==
  and_then(cmd(<<"a", "u", "t", "h">>, buf), LAMBDA c :
    alt(parse_auth_plain(c.rest), parse_auth_login(c.rest)))

\* alt((helo, ehlo, mail, rcpt, data, rset, quit, vrfy, noop, starttls, auth))
\* terminated by CRLF
command(buf) ==
  and_then(alt(helo(buf), alt(ehlo(buf), alt(mail(buf), alt(rcpt(buf), alt(data(buf),
           alt(rset(buf), alt(quit(buf), alt(vrfy(buf), alt(noop(buf),
           alt(starttls(buf), parse_auth(buf))))))))))),
           LAMBDA r : value(r.val, tag(<<CR, LF>>, r.rest)))

\* ---------------------------------------------------------------------------
\* Responses (mailin/src/lib.rs, mailin/src/smtp.rs, mailin/src/response.rs)
\* ---------------------------------------------------------------------------

\* Response::fixed_action
fixed_action(code, message, action) ==
  [code |-> code, kind |-> "Fixed", text |-> message, tail |-> <<>>,
   is_error |-> (code < 200 \/ code >= 400), action |-> action, ehlo_ok |-> FALSE]

\* Response::fixed
fixed(code, message) ==
  fixed_action(code, message, IF code \in {221, 421} THEN "Close" ELSE "Reply")

\* Response::ehlo_ok
ehlo_ok ==
  [code |-> 250, kind |-> "Fixed", text |-> "", tail |-> <<>>,
   is_error |-> FALSE, action |-> "Reply", ehlo_ok |-> TRUE]

\* Response::dynamic
dynamic(code, head, tail) ==
  [code |-> code, kind |-> "Dynamic", text |-> head, tail |-> tail,
   is_error |-> FALSE, action |-> "Reply", ehlo_ok |-> FALSE]

\* Response::empty
empty ==
  [code |-> 0, kind |-> "Empty", text |-> "", tail |-> <<>>,
   is_error |-> FALSE, action |-> "NoReply", ehlo_ok |-> FALSE]

EMPTY_RESPONSE == empty

START_TLS == fixed_action(220, "Ready to start TLS", "UpgradeTls")

GOODBYE == fixed(221, "Goodbye")

VERIFY_RESPONSE == fixed(252, "Maybe")

START_DATA == fixed(354, "Start mail input; end with <CRLF>.<CRLF>")

INVALID_STATE == fixed(421, "Internal service error, closing connection")

SYNTAX_ERROR == fixed(500, "Syntax error")

MISSING_PARAMETER == fixed(502, "Missing parameter")

BAD_SEQUENCE_COMMANDS == fixed(503, "Bad sequence of commands")

AUTH_OK == fixed(235, "Authentication succeeded")

OK == fixed(250, "OK")

NO_SERVICE == fixed(421, "Service not available, closing connection")

INTERNAL_ERROR == fixed(451, "Aborted: local error in processing")

OUT_OF_SPACE == fixed(452, "Insufficient system storage")

TEMP_AUTH_FAILURE == fixed(454, "Temporary authentication failure")

NO_STORAGE == fixed(552, "Exceeded storage allocation")

AUTH_REQUIRED == fixed(530, "Authentication required")

INVALID_CREDENTIALS == fixed(535, "Invalid credentials")

NO_MAILBOX == fixed(550, "Mailbox unavailable")

BAD_HELLO == fixed(550, "Bad HELO")

BLOCKED_IP == fixed(550, "IP address on blocklists")

BAD_MAILBOX == fixed(553, "Mailbox name not allowed")

TRANSACTION_FAILED == fixed(554, "Transaction failed")

\* impl From<HeloResult> for Response
FromHeloResult(v) ==
  CASE v = "Ok"        -> OK
    [] v = "BadHelo"   -> BAD_HELLO
    [] v = "BlockedIp" -> BLOCKED_IP

\* impl From<MailResult> for Response
FromMailResult(v) ==
  CASE v = "Ok"            -> OK
    [] v = "NoService"     -> NO_SERVICE
    [] v = "InternalError" -> INTERNAL_ERROR
    [] v = "OutOfSpace"    -> OUT_OF_SPACE
    [] v = "AuthRequired"  -> AUTH_REQUIRED
    [] v = "NoStorage"     -> NO_STORAGE

\* impl From<RcptResult> for Response
FromRcptResult(v) ==
  CASE v = "Ok"            -> OK
    [] v = "NoMailbox"     -> NO_MAILBOX
    [] v = "NoStorage"     -> NO_STORAGE
    [] v = "BadMailbox"    -> BAD_MAILBOX
    [] v = "InternalError" -> INTERNAL_ERROR
    [] v = "OutOfSpace"    -> OUT_OF_SPACE
    [] v = "NoService"     -> NO_SERVICE

\* impl From<DataResult> for Response (DataResult::Ok is handled by the caller)
FromDataResult(v) ==
  CASE v = "InternalError"     -> INTERNAL_ERROR
    [] v = "TransactionFailed" -> TRANSACTION_FAILED
    [] v = "NoService"         -> NO_SERVICE

\* impl From<AuthResult> for Response
FromAuthResult(v) ==
  CASE v = "Ok"                 -> AUTH_OK
    [] v = "TemporaryFailure"   -> TEMP_AUTH_FAILURE
    [] v = "InvalidCredentials" -> INVALID_CREDENTIALS

\* Parse a line from the client: Left(cmd) or Right(response)
Left(c) == [left |-> TRUE, cmd |-> c]

Right(r) == [left |-> FALSE, res |-> r]

parse(line) == bind(command(line), LAMBDA r : IF r.ok THEN Left(r.val) ELSE Right(SYNTAX_ERROR))

\* ---------------------------------------------------------------------------
\* The handler (trait Handler, mailin/src/lib.rs) and the handlers of the
\* tests.  EmptyHandler keeps every default; AuthHandler overrides
\* auth_plain; AnyHandler stands for an arbitrary implementation, whose
\* callbacks may return any value of their result type.  A callback is
\* modelled by the set of results it may return.
\* ---------------------------------------------------------------------------

Handlers == {"EmptyHandler", "AuthHandler", "AnyHandler"}

\* "test" and "1234" as bytes
TestId == <<116, 101, 115, 116>>

TestPassword == <<49, 50, 51, 52>>

handler_helo(h, domain) ==
  IF h = "AnyHandler" THEN {"Ok", "BadHelo", "BlockedIp"} ELSE {"Ok"}

handler_mail(h, domain, from) ==
  IF h = "AnyHandler"
  THEN {"Ok", "NoService", "InternalError", "OutOfSpace", "AuthRequired", "NoStorage"}
  ELSE {"Ok"}

handler_rcpt(h, to) ==
  IF h = "AnyHandler"
  THEN {"Ok", "NoMailbox", "NoStorage", "BadMailbox", "InternalError", "OutOfSpace", "NoService"}
  ELSE {"Ok"}

handler_data(h, domain, from, is8bit, to) ==
  IF h = "AnyHandler"
  THEN {"Ok", "InternalError", "TransactionFailed", "NoService"}
  ELSE {"Ok"}

handler_auth_plain(h, authorization_id, authentication_id, password) ==
  CASE h = "EmptyHandler" -> {"InvalidCredentials"}
    [] h = "AuthHandler"  ->
         IF /\ authorization_id = TestId
            /\ authentication_id = TestId
            /\ password = TestPassword
         THEN {"Ok"} ELSE {"InvalidCredentials"}
    [] h = "AnyHandler"   -> {"Ok", "TemporaryFailure", "InvalidCredentials"}

\* The results of write_all on the writer that handler.data returned: the
\* default writer, io::sink(), accepts everything; any other may fail.
writer_write_all(h) == IF h = "AnyHandler" THEN {"Ok", "Err"} ELSE {"Ok"}

\* A record of one callback invocation
Call(fn, args, result) == [fn |-> fn, args |-> args, result |-> result]

\* ---------------------------------------------------------------------------
\* The states of the state machine (mailin/src/fsm.rs).  smtp = None is the
\* terminal state, SmtpState::Invalid.
\* ---------------------------------------------------------------------------

None == [id |-> "Invalid"]

Idle == [id |-> "Idle"]

Hello(domain) == [id |-> "Hello", domain |-> domain]

HelloAuth(domain) == [id |-> "HelloAuth", domain |-> domain]

Auth(domain, mechanism) == [id |-> "Auth", domain |-> domain, mechanism |-> mechanism]

Mail(domain, reverse_path, is8bit) ==
  [id |-> "Mail", domain |-> domain, reverse_path |-> reverse_path, is8bit |-> is8bit]

Rcpt(domain, reverse_path, is8bit, forward_path) ==
  [id |-> "Rcpt", domain |-> domain, reverse_path |-> reverse_path, is8bit |-> is8bit,
   forward_path |-> forward_path]

\* The writer of Data is modelled by the chunks it has received.
Data(domain, writer) == [id |-> "Data", domain |-> domain, writer |-> writer]

\* No writer
NoWriter == << "no writer" >>

\* The outcome of handling one command: the response, the next state, the
\* fields of the StateMachine (auth, tls) after it, the callbacks invoked, and
\* the writer that was dropped with the state that owned it (the chunks it
\* had received).
Outcome(res, next, fsm, calls) ==
  [res |-> res, smtp |-> next, auth |-> fsm.auth, tls |-> fsm.tls,
   calls |-> calls, dropped |-> NoWriter]

\* Return the next state depending on the response
next_state(current, res, next) ==
  IF res.action = "Close" THEN None
  ELSE IF res.is_error THEN current
  ELSE next

\* transform_state without the test for Close
transform_state_no_close(current, res, next) ==
  IF res.is_error THEN current
  ELSE next

\* Convert the current state to the next state depending on the response
transform_state(current, res, next) ==
  IF res.action = "Close" THEN None
  ELSE IF res.is_error THEN current
  ELSE next

\* unhandled that forgets the session
unhandled_reset(current, fsm) == { Outcome(BAD_SEQUENCE_COMMANDS, Idle, fsm, <<>>) }

unhandled(current, fsm) == { Outcome(BAD_SEQUENCE_COMMANDS, current, fsm, <<>>) }

\* handle_rset that sends only an unauthenticated client back to HelloAuth
handle_rset_authenticated(fsm, domain) ==
  IF fsm.auth = "RequiresAuth"
  THEN { Outcome(OK, HelloAuth(domain), fsm, <<>>) }
  ELSE { Outcome(OK, Hello(domain), fsm, <<>>) }

handle_rset(fsm, domain) ==
  IF fsm.auth = "Unavailable"
  THEN { Outcome(OK, Hello(domain), fsm, <<>>) }
  ELSE { Outcome(OK, HelloAuth(domain), fsm, <<>>) }

\* handle_helo without the test of the auth state
handle_helo_no_auth_test(current, fsm, handler, domain) ==
  { LET res == FromHeloResult(r)
    IN Outcome(res, next_state(current, res, Hello(domain)), fsm,
               << Call("helo", <<domain>>, r) >>)
    : r \in handler_helo(handler, domain) }

handle_helo(current, fsm, handler, domain) ==
  IF fsm.auth = "Unavailable"
  THEN { LET res == FromHeloResult(r)
         IN Outcome(res, next_state(current, res, Hello(domain)), fsm,
                    << Call("helo", <<domain>>, r) >>)
         : r \in handler_helo(handler, domain) }
  ELSE \* If authentication is required the client should be using EHLO
       { Outcome(BAD_HELLO, current, fsm, <<>>) }

\* handle_ehlo that answers but keeps the state the session is in
handle_ehlo_keep_state(current, fsm, handler, domain) ==
  { LET res == IF r = "Ok" THEN ehlo_ok ELSE FromHeloResult(r)
    IN Outcome(res, next_state(current, res, current), fsm,
               << Call("helo", <<domain>>, r) >>)
    : r \in handler_helo(handler, domain) }

handle_ehlo(current, fsm, handler, domain) ==
  { LET res == IF r = "Ok" THEN ehlo_ok ELSE FromHeloResult(r)
        nxt == IF fsm.auth = "Unavailable" THEN Hello(domain) ELSE HelloAuth(domain)
    IN Outcome(res, next_state(current, res, nxt), fsm, << Call("helo", <<domain>>, r) >>)
    : r \in handler_helo(handler, domain) }

\* authenticate that reports every failure as invalid credentials
authenticate_one_failure(fsm, r) ==
  [res |-> IF r = "Ok" THEN AUTH_OK ELSE INVALID_CREDENTIALS,
   fsm |-> [fsm EXCEPT !.auth = IF r = "Ok" THEN "Authenticated" ELSE "RequiresAuth"]]

\* authenticate: the response and the new auth state for one result of
\* handler.auth_plain
authenticate(fsm, r) ==
  [res |-> FromAuthResult(r),
   fsm |-> [fsm EXCEPT !.auth = IF r = "Ok" THEN "Authenticated" ELSE "RequiresAuth"]]

\* default_handler without the arm for QUIT
default_handler_no_quit(current, fsm, handler, c) ==
  CASE c.name = "Helo" -> handle_helo(current, fsm, handler, c.domain)
    [] c.name = "Ehlo" -> handle_ehlo(current, fsm, handler, c.domain)
    [] OTHER           -> unhandled(current, fsm)

default_handler(current, fsm, handler, c) ==
  CASE c.name = "Quit" -> { Outcome(GOODBYE, None, fsm, <<>>) }
    [] c.name = "Helo" -> handle_helo(current, fsm, handler, c.domain)
    [] c.name = "Ehlo" -> handle_ehlo(current, fsm, handler, c.domain)
    [] OTHER           -> unhandled(current, fsm)

\* allow_auth_plain without the test of the TLS state
StateMachine_allow_auth_plain_no_tls(fsm) == fsm.auth_plain

StateMachine_allow_auth_plain(fsm) == fsm.auth_plain /\ fsm.tls = "Active"

\* Idle::handle without the arm for StartedTls
Idle_handle_no_started_tls(self, fsm, handler, c) ==
  CASE c.name = "Rset" -> { Outcome(OK, self, fsm, <<>>) }
    [] OTHER -> default_handler(self, fsm, handler, c)

Idle_handle(self, fsm, handler, c) ==
  CASE c.name = "StartedTls" ->
         { Outcome(EMPTY_RESPONSE, self, [fsm EXCEPT !.tls = "Active"], <<>>) }
    [] c.name = "Rset" -> { Outcome(OK, self, fsm, <<>>) }
    [] OTHER -> default_handler(self, fsm, handler, c)

Hello_handle(self, fsm, handler, c) ==
  CASE c.name = "Mail" ->
         { LET res == FromMailResult(r)
           IN Outcome(res,
                      transform_state(self, res, Mail(self.domain, c.reverse_path, c.is8bit)),
                      fsm, << Call("mail", <<self.domain, c.reverse_path>>, r) >>)
           : r \in handler_mail(handler, self.domain, c.reverse_path) }
    [] c.name = "StartTls" /\ fsm.tls = "Inactive" -> { Outcome(START_TLS, Idle, fsm, <<>>) }
    [] c.name = "Vrfy" -> { Outcome(VERIFY_RESPONSE, self, fsm, <<>>) }
    [] c.name = "Rset" -> handle_rset(fsm, self.domain)
    [] OTHER -> default_handler(self, fsm, handler, c)

\* HelloAuth::handle that enters Hello whatever handler.auth_plain returned
HelloAuth_handle_any_result(self, fsm, handler, c) ==
  CASE c.name = "StartTls" -> { Outcome(START_TLS, Idle, fsm, <<>>) }
    [] c.name = "AuthPlain" /\ StateMachine_allow_auth_plain(fsm) ->
         { LET a == authenticate(fsm, r)
           IN Outcome(a.res, Hello(self.domain), a.fsm,
                      << Call("auth_plain",
                              <<c.authorization_id, c.authentication_id, c.password>>, r) >>)
           : r \in handler_auth_plain(handler, c.authorization_id, c.authentication_id,
                                      c.password) }
    [] c.name = "AuthPlainEmpty" /\ StateMachine_allow_auth_plain(fsm) ->
         { Outcome(fixed(334, ""), Auth(self.domain, "Plain"), fsm, <<>>) }
    [] c.name = "Rset" -> handle_rset(fsm, self.domain)
    [] OTHER -> default_handler(self, fsm, handler, c)

HelloAuth_handle(self, fsm, handler, c) ==
  CASE c.name = "StartTls" -> { Outcome(START_TLS, Idle, fsm, <<>>) }
    [] c.name = "AuthPlain" /\ StateMachine_allow_auth_plain(fsm) ->
         { LET a == authenticate(fsm, r)
           IN Outcome(a.res, transform_state(self, a.res, Hello(self.domain)), a.fsm,
                      << Call("auth_plain",
                              <<c.authorization_id, c.authentication_id, c.password>>, r) >>)
           : r \in handler_auth_plain(handler, c.authorization_id, c.authentication_id,
                                      c.password) }
    [] c.name = "AuthPlainEmpty" /\ StateMachine_allow_auth_plain(fsm) ->
         { Outcome(fixed(334, ""), Auth(self.domain, "Plain"), fsm, <<>>) }
    [] c.name = "Rset" -> handle_rset(fsm, self.domain)
    [] OTHER -> default_handler(self, fsm, handler, c)

Auth_handle(self, fsm, handler, c) ==
  CASE c.name = "AuthResponse" ->
         bind(decode_sasl_plain(c.response), LAMBDA creds :
           { LET a == authenticate(fsm, r)
             IN Outcome(a.res,
                        IF a.res.is_error THEN HelloAuth(self.domain) ELSE Hello(self.domain),
                        a.fsm,
                        << Call("auth_plain",
                                <<creds.authorization_id, creds.authentication_id,
                                  creds.password>>, r) >>)
             : r \in handler_auth_plain(handler, creds.authorization_id,
                                        creds.authentication_id, creds.password) })
    [] OTHER -> unhandled(self, fsm)

Mail_handle(self, fsm, handler, c) ==
  CASE c.name = "Rcpt" ->
         { LET res == FromRcptResult(r)
           IN Outcome(res,
                      transform_state(self, res,
                                      Rcpt(self.domain, self.reverse_path, self.is8bit,
                                           << c.forward_path >>)),
                      fsm, << Call("rcpt", <<c.forward_path>>, r) >>)
           : r \in handler_rcpt(handler, c.forward_path) }
    [] c.name = "Rset" -> handle_rset(fsm, self.domain)
    [] OTHER -> default_handler(self, fsm, handler, c)

\* Rcpt::handle that starts a new list at every RCPT, as Mail::handle does
Rcpt_handle_last_only(self, fsm, handler, c) ==
  CASE c.name = "Data" ->
         { LET res == IF r = "Ok" THEN START_DATA ELSE FromDataResult(r)
           \* DataResult::Ok carries a new writer, which has received nothing
           IN Outcome(res, transform_state(self, res, Data(self.domain, <<>>)), fsm,
                      << Call("data",
                              <<self.domain, self.reverse_path, self.is8bit,
                                self.forward_path>>, r) >>)
           : r \in handler_data(handler, self.domain, self.reverse_path, self.is8bit,
                                self.forward_path) }
    [] c.name = "Rcpt" ->
         { LET res == FromRcptResult(r)
           IN Outcome(res,
                      transform_state(self, res,
                                      Rcpt(self.domain, self.reverse_path, self.is8bit,
                                           << c.forward_path >>)),
                      fsm, << Call("rcpt", <<c.forward_path>>, r) >>)
           : r \in handler_rcpt(handler, c.forward_path) }
    [] c.name = "Rset" -> handle_rset(fsm, self.domain)
    [] OTHER -> default_handler(self, fsm, handler, c)

Rcpt_handle(self, fsm, handler, c) ==
  CASE c.name = "Data" ->
         { LET res == IF r = "Ok" THEN START_DATA ELSE FromDataResult(r)
           \* DataResult::Ok carries a new writer, which has received nothing
           IN Outcome(res, transform_state(self, res, Data(self.domain, <<>>)), fsm,
                      << Call("data",
                              <<self.domain, self.reverse_path, self.is8bit,
                                self.forward_path>>, r) >>)
           : r \in handler_data(handler, self.domain, self.reverse_path, self.is8bit,
                                self.forward_path) }
    [] c.name = "Rcpt" ->
         { LET res == FromRcptResult(r)
           IN Outcome(res,
                      transform_state(self, res,
                                      Rcpt(self.domain, self.reverse_path, self.is8bit,
                                           Append(self.forward_path, c.forward_path))),
                      fsm, << Call("rcpt", <<c.forward_path>>, r) >>)
           : r \in handler_rcpt(handler, c.forward_path) }
    [] c.name = "Rset" -> handle_rset(fsm, self.domain)
    [] OTHER -> default_handler(self, fsm, handler, c)

Data_handle(self, fsm, handler, c) ==
  CASE c.name = "DataEnd" ->
         { [ Outcome(OK, Hello(self.domain), fsm, <<>>) EXCEPT !.dropped = self.writer ] }
    [] OTHER -> unhandled(self, fsm)

\* State::handle, dispatched on the type of the current state
State_handle(self, fsm, handler, c) ==
  CASE self.id = "Idle"      -> Idle_handle(self, fsm, handler, c)
    [] self.id = "Hello"     -> Hello_handle(self, fsm, handler, c)
    [] self.id = "HelloAuth" -> HelloAuth_handle(self, fsm, handler, c)
    [] self.id = "Auth"      -> Auth_handle(self, fsm, handler, c)
    [] self.id = "Mail"      -> Mail_handle(self, fsm, handler, c)
    [] self.id = "Rcpt"      -> Rcpt_handle(self, fsm, handler, c)
    [] self.id = "Data"      -> Data_handle(self, fsm, handler, c)

\* Respond and change state with the given command
StateMachine_command(fsm, handler, c) ==
  IF fsm.smtp = None
  THEN { Outcome(INVALID_STATE, None, fsm, <<>>) }
  ELSE State_handle(fsm.smtp, fsm, handler, c)

\* Session::ehlo_response
AuthMechanism_extension(a) == IF a = "Plain" THEN "AUTH PLAIN" ELSE "AUTH"

ehlo_response(start_tls_ext, mechanisms) ==
  LET extensions ==
        IF start_tls_ext
        THEN << "8BITMIME", "STARTTLS" >>
        ELSE << "8BITMIME" >> \o [ i \in 1..Len(mechanisms) |->
                                     AuthMechanism_extension(mechanisms[i]) ]
  IN dynamic(250, "name offers extensions:", extensions)

\* Session::fill_response
fill_response(res, start_tls_ext, mechanisms) ==
  IF res.ehlo_ok THEN ehlo_response(start_tls_ext, mechanisms) ELSE res

\* State::process_line for the states that keep the default: parse the line
\* and hand the command to the state machine.
Command_line(fsm, handler, line) ==
  bind(parse(line), LAMBDA p :
    IF p.left THEN StateMachine_command(fsm, handler, p.cmd)
    ELSE { Outcome(p.res, fsm.smtp, fsm, <<>>) })

\* Auth::process_line: every line is the client's response
Auth_line(fsm, handler, line) ==
  StateMachine_command(fsm, handler, [name |-> "AuthResponse", response |-> line])

\* Data::process_line: the end of data, or a line for the writer
Data_line(fsm, handler, line) ==
  IF line = << "." >>
  THEN StateMachine_command(fsm, handler, [name |-> "DataEnd"])
  ELSE { IF w = "Ok"
         THEN Outcome(EMPTY_RESPONSE, [fsm.smtp EXCEPT !.writer = Append(@, line)], fsm, <<>>)
         ELSE Outcome(TRANSACTION_FAILED, fsm.smtp, fsm, <<>>)
         : w \in writer_write_all(handler) }

\* process_line without the arm for the terminal state
process_outcomes_no_terminal(fsm, handler, line) ==
  CASE fsm.smtp # None /\ fsm.smtp.id = "Auth" -> Auth_line(fsm, handler, line)
    [] fsm.smtp # None /\ fsm.smtp.id = "Data" -> Data_line(fsm, handler, line)
    [] OTHER                                   -> Command_line(fsm, handler, line)

\* StateMachine::process_line followed by Session::process: the outcomes of
\* processing one line, before fill_response
process_outcomes(fsm, handler, line) ==
  CASE fsm.smtp = None        -> { Outcome(INVALID_STATE, fsm.smtp, fsm, <<>>) }
    [] fsm.smtp.id = "Auth"   -> Auth_line(fsm, handler, line)
    [] fsm.smtp.id = "Data"   -> Data_line(fsm, handler, line)
    [] OTHER                  -> Command_line(fsm, handler, line)

\* StateMachine::new
StateMachine_new(mechanisms, allow_start_tls) ==
  [auth       |-> IF mechanisms = <<>> THEN "Unavailable" ELSE "RequiresAuth",
   tls        |-> IF allow_start_tls THEN "Inactive" ELSE "Unavailable",
   smtp       |-> Idle,
   auth_plain |-> \E i \in 1..Len(mechanisms) : mechanisms[i] = "Plain"]

\* ---------------------------------------------------------------------------
\* The session and its embedder
\* ---------------------------------------------------------------------------

\* The lines a client may send
Lines ==
  << <<"H", "E", "L", "O", " ", "a", ".", "d", "o", "m", "a", "i", "n", CR, LF>>,
     <<"M", "A", "I", "L", " ", "F", "R", "O", "M", ":", "<", "s", "h", "i", "p", "@",
       "s", "e", "a", ".", "c", "o", "m", ">", CR, LF>>,
     <<"R", "C", "P", "T", " ", "T", "O", ":", "<", "f", "i", "s", "h", "@",
       "s", "e", "a", ".", "c", "o", "m", ">", CR, LF>>,
     <<"D", "A", "T", "A", CR, LF>>,
     <<"H", "e", "l", "l", "o", " ", "W", "o", "r", "l", "d", CR, LF>>,
     <<".", CR, LF>>,
     <<"Q", "U", "I", "T", CR, LF>>,
     <<"e", "h", "l", "o", " ", "b", ".", "d", "o", "m", "a", "i", "n", CR, LF>>,
     <<"r", "s", "e", "t", CR, LF>>,
     <<"n", "o", "o", "p", CR, LF>>,
     <<"v", "r", "f", "y", " ", "k", "r", "a", "k", "e", "n", CR, LF>>,
     <<"s", "t", "a", "r", "t", "t", "l", "s", CR, LF>>,
     <<"a", "u", "t", "h", " ", "p", "l", "a", "i", "n", " ", "d", "G", "V", "z", "d",
       "A", "B", "0", "Z", "X", "N", "0", "A", "D", "E", "y", "M", "z", "Q", "=", CR, LF>>,
     <<"a", "u", "t", "h", " ", "p", "l", "a", "i", "n", " ", "e", "G", "V", "z", "d",
       "A", "B", "0", "Z", "X", "N", "0", "A", "D", "E", "y", "M", "z", "Q", "=", CR, LF>>,
     <<"a", "u", "t", "h", " ", "p", "l", "a", "i", "n", CR, LF>>,
     <<"d", "G", "V", "z", "d", "A", "B", "0", "Z", "X", "N", "0", "A", "D", "E", "y",
       "M", "z", "Q", "=", CR, LF>>,
     <<"d", "G", "V", "z", "d", "A", "B", "0", "Z", "X", "N", "0", "A", "D", "E", "y",
       "M", "z", "Q", "=">>,
     <<".">>,
     <<"a", "u", "t", "h", " ", "l", "o", "g", "i", "n", CR, LF>>,
     <<".", ".", "X", CR, LF>>,
     <<"R", "C", "P", "T", " ", "T", "O", ":", "<", "c", "r", "a", "b", "@",
       "s", "e", "a", ".", "c", "o", "m", ">", CR, LF>>,
     <<"M", "A", "I", "L", " ", "F", "R", "O", "M", ":", "<", "s", "h", "i", "p", "@",
       "s", "e", "a", ".", "c", "o", "m", ">", " ", "B", "O", "D", "Y", "=",
       "8", "B", "I", "T", "M", "I", "M", "E", CR, LF>>,
     <<"M", "A", "I", "L", " ", "F", "R", "O", "M", ":", "<", ">", CR, LF>> >>

LineIds == 1..Len(Lines)

\* The value of line after a call of tls_active
TlsNotified == Len(Lines) + 1

\* The most chunks the writer receives for one message, and the most
\* recipients of one message, in an unscripted session
MaxBody == 1

MaxRcpt == 2

VARIABLES
  handler,              \* Session.handler: which Handler implementation
  auth_mechanisms,      \* Session.auth_mechanisms
  start_tls_extension,  \* Session.start_tls_extension
  auth,                 \* StateMachine.auth
  tls,                  \* StateMachine.tls
  smtp,                 \* StateMachine.smtp
  auth_plain,           \* StateMachine.auth_plain
  dropped,              \* the writer dropped by the last call, or NoWriter
  before,               \* StateMachine.smtp before the last call
  line,                 \* the last call: 0 none yet, a line of Lines, or TlsNotified
  res,                  \* the response of the last call of process
  calls,                \* the handler callbacks invoked by the last call
  script,               \* a scripted session: the lines the client will send
  pos,                  \* a scripted session: how many of them were processed
  replies,              \* a scripted session: the responses so far
  running,              \* the embedded server: the connection is being served
  document,             \* mime-event: the lines the caller writes to the parser
  nwritten,             \* mime-event: how many of them were written
  parser,               \* mime-event: the EventParser
  message_handler,      \* mime-event: the MessageHandler the events go to
  ended,                \* mime-event: the parser was dropped
  dns,                  \* mxdns: what the name servers answer
  mxdns,                \* mxdns: the last call of MxDns and its result
  server,               \* the embedded server: RunningServer, run and the pool
  store                 \* mailin-server: the sessions' MailStore clones, the index lock, the files

sessionVars ==
  << handler, auth_mechanisms, start_tls_extension, auth, tls, smtp, auth_plain,
     dropped, before, line, res, calls, script, pos, replies, running >>

mimeVars == << document, nwritten, parser, message_handler, ended >>

dnsVars == << dns, mxdns >>

serverVars == << server >>

storeVars == << store >>

vars == << sessionVars, mimeVars, dnsVars, serverVars, storeVars >>

\* The value of a variable whose object does not exist in a specification
Absent == << "absent" >>

\* A session uses no MIME parser
NoMime ==
  /\ document = <<>>
  /\ nwritten = 0
  /\ parser = Absent
  /\ message_handler = Absent
  /\ ended = FALSE

\* ... and no MxDns
NoDns == dns = Absent /\ mxdns = Absent

\* ... and the accept loop is not part of it
NoServer == server = Absent

\* ... and no mail store
NoStore == store = Absent

Others == << mimeVars, dnsVars, serverVars, storeVars >>

\* No call of process has returned yet (or tls_active, which returns nothing,
\* was the last call)
NoResponse ==
  [code |-> 0, kind |-> "None", text |-> "", tail |-> <<>>,
   is_error |-> FALSE, action |-> "None", ehlo_ok |-> FALSE]

Fsm == [auth |-> auth, tls |-> tls, smtp |-> smtp, auth_plain |-> auth_plain]

\* SessionBuilder::build for every configuration and handler
Build ==
  /\ handler \in Handlers
  /\ auth_mechanisms \in { <<>>, <<"Plain">> }
  /\ start_tls_extension \in BOOLEAN
  /\ LET fsm == StateMachine_new(auth_mechanisms, start_tls_extension)
     IN /\ auth = fsm.auth
        /\ tls = fsm.tls
        /\ smtp = fsm.smtp
        /\ auth_plain = fsm.auth_plain
        /\ dropped = NoWriter
  /\ before = Idle
  /\ line = 0
  /\ res = NoResponse
  /\ calls = <<>>

Init ==
  /\ Build /\ script = <<>> /\ pos = 0 /\ replies = <<>> /\ running = TRUE
  /\ NoMime /\ NoDns /\ NoServer /\ NoStore

\* Session::process(Lines[i])
Session_process(i) ==
  \E out \in process_outcomes(Fsm, handler, Lines[i]) :
    /\ auth' = out.auth
    /\ tls' = out.tls
    /\ smtp' = out.smtp
    /\ dropped' = out.dropped
    /\ calls' = out.calls
    \* a response that process_line returned itself never has ehlo_ok set
    /\ res' = fill_response(out.res, start_tls_extension, auth_mechanisms)
    /\ before' = smtp
    /\ line' = i
    /\ UNCHANGED << handler, auth_mechanisms, start_tls_extension, auth_plain >>

\* The verb of a line of Lines; "" when the line does not parse as a command
\* and when i is not a line
Verb(i) ==
  IF i \in LineIds
  THEN bind(parse(Lines[i]), LAMBDA p : IF p.left THEN p.cmd.name ELSE "")
  ELSE ""

\* The embedder reads the next line only after it has dealt with the last
\* response: after UpgradeTls it performs the handshake first.
Process ==
  /\ res.action # "UpgradeTls"
  /\ \E i \in LineIds :
       /\ smtp.id = "Data" /\ Lines[i] # << "." >> => Len(smtp.writer) < MaxBody
       /\ smtp.id = "Rcpt" /\ Verb(i) = "Rcpt" => Len(smtp.forward_path) < MaxRcpt
       /\ Session_process(i)
  /\ UNCHANGED << script, pos, replies, running, Others >>

\* Session::tls_active, called by the embedder after the handshake that
\* follows an UpgradeTls response; an embedder without TLS configuration
\* cannot perform it.
Session_tls_active ==
  /\ start_tls_extension' = FALSE
  /\ \E out \in StateMachine_command(Fsm, handler, [name |-> "StartedTls"]) :
       /\ auth' = out.auth
       /\ tls' = out.tls
       /\ smtp' = out.smtp
       /\ dropped' = out.dropped
       /\ calls' = out.calls
  /\ res' = NoResponse
  /\ before' = smtp
  /\ line' = TlsNotified
  /\ UNCHANGED << handler, auth_mechanisms, auth_plain >>

TlsActive ==
  /\ res.action = "UpgradeTls"
  /\ tls # "Unavailable"
  /\ Session_tls_active
  /\ UNCHANGED << script, pos, replies, running, Others >>

Next == Process \/ TlsActive

Spec == Init /\ [][Next]_vars

\* ---------------------------------------------------------------------------
\* Scripted sessions: the client sends the lines of a script, one after the
\* other; the responses are recorded.
\* ---------------------------------------------------------------------------

\* HELO, MAIL FROM, RCPT TO, DATA, "Hello World", ".", QUIT
HappyPath == << 1, 2, 3, 4, 5, 6, 7 >>

\* At each position, the line a script may send instead
Variant == << 8, 12, 9, 11, 18, 18, 10 >>

Scripts ==
  { [ k \in 1..Len(HappyPath) |-> IF b[k] THEN HappyPath[k] ELSE Variant[k] ] :
      b \in [1..Len(HappyPath) -> BOOLEAN] }

InitScript ==
  /\ Build /\ script \in Scripts /\ pos = 0 /\ replies = <<>> /\ running = TRUE
  /\ NoMime /\ NoDns /\ NoServer /\ NoStore

ScriptStep ==
  /\ res.action # "UpgradeTls"
  /\ pos < Len(script)
  /\ Session_process(script[pos + 1])
  /\ pos' = pos + 1
  /\ replies' = Append(replies, res')
  /\ UNCHANGED << script, running, Others >>

ScriptTls ==
  /\ res.action = "UpgradeTls"
  /\ tls # "Unavailable"
  /\ Session_tls_active
  /\ UNCHANGED << script, pos, replies, running, Others >>

NextScript == ScriptStep \/ ScriptTls

SpecScript == InitScript /\ [][NextScript]_vars

\* ---------------------------------------------------------------------------
\* The embedded server (mailin-embedded/src/running.rs): one connection.
\* RunningServer::serve builds the session with STARTTLS enabled exactly when it
\* has an acceptor, and with no auth mechanism.  The crate is built against
\* the mailin crate as a dependency, so the framing the linked
\* Session::process expects is not fixed by running.rs: the lines handed to
\* process are those of Lines, which holds CRLF-terminated lines and lines
\* without line ending.
\* ---------------------------------------------------------------------------

\* utils::trim: remove one LF, then one CR, from the end of the line
trim(l) ==
  IF l # <<>> /\ l[Len(l)] = LF
  THEN IF Len(l) >= 2 /\ l[Len(l) - 1] = CR
       THEN SubSeq(l, 1, Len(l) - 2)
       ELSE SubSeq(l, 1, Len(l) - 1)
  ELSE IF l # <<>> /\ l[Len(l)] = CR
       THEN SubSeq(l, 1, Len(l) - 1)
       ELSE l

\* The value of line after the connection was lost
Disconnected == Len(Lines) + 2

InitServer == Init /\ auth_mechanisms = <<>>

\* One iteration of the loop of handle_session: read a line, process it and
\* act on the response.  Reply, NoReply and a Close that is flagged as an
\* error go round the loop again; a Close that is not an error returns
\* Finished; UpgradeTls returns to start_session, which ignores it in the
\* second call of handle_session, after the upgrade.
handle_session ==
  /\ running
  /\ res.action # "UpgradeTls"
  /\ \E i \in LineIds :
       /\ smtp.id = "Data" /\ Lines[i] # << "." >> => Len(smtp.writer) < MaxBody
       /\ smtp.id = "Rcpt" /\ Verb(i) = "Rcpt" => Len(smtp.forward_path) < MaxRcpt
       /\ Session_process(i)
  /\ running' = CASE res'.action = "Close"      -> res'.is_error
                  [] res'.action = "UpgradeTls" -> tls # "Active"
                  [] OTHER                      -> TRUE
  /\ UNCHANGED << script, pos, replies, Others >>

\* start_session after handle_session returned UpgradeTls: the handshake
\* succeeded, tls_active is called and handle_session is called again
start_session ==
  /\ running
  /\ res.action = "UpgradeTls"
  /\ tls # "Unavailable"
  /\ Session_tls_active
  /\ UNCHANGED << script, pos, replies, running, Others >>

\* The connection is lost: read_until returns 0 bytes or an error, or the
\* handshake fails.  handle_session or upgrade_tls returns an error,
\* start_session returns and the session is dropped, and with it the state
\* and the writer the state owns.
Disconnect ==
  /\ running
  /\ running' = FALSE
  /\ dropped' = IF smtp.id = "Data" THEN smtp.writer ELSE NoWriter
  /\ before' = smtp
  /\ line' = Disconnected
  /\ res' = NoResponse
  /\ calls' = <<>>
  /\ UNCHANGED << handler, auth_mechanisms, start_tls_extension, auth, tls, smtp,
                  auth_plain, script, pos, replies, Others >>

NextServer == handle_session \/ start_session \/ Disconnect

SpecServer == InitServer /\ [][NextServer]_vars

\* ---------------------------------------------------------------------------
\* Properties
\* ---------------------------------------------------------------------------

\* The phases in which a line is parsed as a command
CommandPhases == { "Idle", "Hello", "HelloAuth", "Mail", "Rcpt" }

\* process was the last call
Processed == line \in LineIds

\* C1: with a handler that accepts everything and neither authentication nor
\* STARTTLS configured, the lines HELO, MAIL FROM, RCPT TO, DATA, "Hello
\* World", "." and QUIT, each terminated by CRLF, are answered 250, 250, 250,
\* 354, nothing, 250 and 221; the last response closes the session, and the
\* writer has received exactly "Hello World\r\n" when it is dropped.
C1_HappyPathCodes == << 250, 250, 250, 354, 0, 250, 221 >>

C1_HappyPath ==
  ( /\ script = HappyPath
    /\ handler \in { "EmptyHandler", "AuthHandler" }
    /\ auth_mechanisms = <<>>
    /\ tls = "Unavailable" )
  => /\ \A k \in 1..pos : replies[k].code = C1_HappyPathCodes[k]
     /\ pos >= 5 => replies[5].action = "NoReply"
     /\ pos = 6 => dropped = << Lines[5] >>
     /\ pos = 7 => replies[7].action = "Close" /\ smtp = None

\* C2 as stated, for the phases of a session that is not yet closed: QUIT is
\* answered 221 with action Close whatever the phase, and the session is
\* terminal afterwards.
C2_QuitEveryPhase ==
  Processed /\ Verb(line) = "Quit" /\ before # None
  => res.code = 221 /\ res.action = "Close" /\ smtp = None

\* C2: in every phase in which lines are parsed as commands (Idle, Hello,
\* HelloAuth, Mail, Rcpt) QUIT is answered 221 with action Close, invokes no
\* callback, and the session is terminal afterwards.
C2_QuitCommandPhase ==
  Processed /\ Verb(line) = "Quit" /\ before # None /\ before.id \in CommandPhases
  => res = GOODBYE /\ res.action = "Close" /\ smtp = None /\ calls = <<>>

C2_Witness ==
  /\ Processed /\ Verb(line) = "Quit"
  /\ before # None /\ before.id = "Rcpt"
  /\ res.code = 221 /\ smtp = None

\* The verbs the phase table lists for a command phase, apart from the verbs
\* it lists for every phase
Listed(phase, verb) ==
  \/ phase = "Hello" /\ verb \in { "Mail", "Vrfy" }
  \/ phase = "HelloAuth" /\ verb \in { "AuthPlain", "AuthPlainEmpty" } /\ tls = "Active"
  \/ phase = "Mail" /\ verb = "Rcpt"
  \/ phase = "Rcpt" /\ verb \in { "Rcpt", "Data" }

\* C3: a verb that the phase table does not list for the current command
\* phase is answered 503, invokes no callback, and leaves the phase and the
\* recorded transaction unchanged.
C3_Unlisted ==
  ( /\ Processed
    /\ before # None /\ before.id \in CommandPhases
    /\ Verb(line) \in { "Mail", "Rcpt", "Data", "Vrfy", "AuthPlain", "AuthPlainEmpty",
                        "AuthLogin", "AuthLoginEmpty" }
    /\ ~Listed(before.id, Verb(line)) )
  => /\ res = BAD_SEQUENCE_COMMANDS
     /\ res.code = 503
     /\ calls = <<>>
     /\ smtp = before
     /\ dropped = NoWriter

C3_Witness ==
  /\ Processed /\ Verb(line) = "Data"
  /\ before # None /\ before.id = "Mail"
  /\ res.code = 503 /\ smtp = before

\* C4: whenever the response of process has action Close, the session is in
\* the terminal phase afterwards.
C4_CloseIsTerminal == Processed /\ res.action = "Close" => smtp = None

C4_Witness ==
  /\ Processed /\ Verb(line) = "Mail"
  /\ before # None /\ before.id = "Hello"
  /\ res = NO_SERVICE /\ res.action = "Close"
  /\ smtp = None

Unauthenticated ==
  /\ Processed
  /\ before # None /\ before.id = "HelloAuth"
  /\ auth = "RequiresAuth"

AsUnavailable(fsm) ==
  [fsm EXCEPT !.auth = "Unavailable",
              !.smtp = IF @ # None /\ @.id = "HelloAuth" THEN Hello(@.domain) ELSE @]

PhaseAsUnavailable(state) ==
  IF state = None THEN "Invalid"
  ELSE IF state.id = "HelloAuth" THEN "Hello" ELSE state.id

\* C7: once the client has authenticated, RSET, EHLO and MAIL FROM are
\* answered with the code, and lead to the phase, that a session with no
\* auth mechanism gives in the same situation.
C7_AuthenticatedAsUnavailable ==
  [][ ( /\ auth = "Authenticated"
        /\ smtp # None /\ smtp.id \in { "Hello", "HelloAuth", "Mail", "Rcpt" }
        /\ line' \in LineIds
        /\ Verb(line') \in { "Rset", "Ehlo", "Mail" } )
      => \E out \in process_outcomes(AsUnavailable(Fsm), handler, Lines[line']) :
           /\ out.res.code = res'.code
           /\ PhaseAsUnavailable(out.smtp) = PhaseAsUnavailable(smtp') ]_vars

\* C8: a successful EHLO response lists 8BITMIME first, STARTTLS only while
\* TLS is Inactive, the auth mechanisms only while TLS is Active, and never
\* both.
C8_EhloExtensions ==
  Processed /\ Verb(line) = "Ehlo" /\ res.kind = "Dynamic"
  => /\ res.tail # <<>> /\ res.tail[1] = "8BITMIME"
     /\ "STARTTLS" \in Range(res.tail) => tls = "Inactive"
     /\ "AUTH PLAIN" \in Range(res.tail) => tls = "Active"
     /\ ~("STARTTLS" \in Range(res.tail) /\ "AUTH PLAIN" \in Range(res.tail))

\* C9: with STARTTLS configured and TLS not yet active, STARTTLS after
\* HELO/EHLO is answered 220 with action UpgradeTls and the phase is Idle;
\* after tls_active TLS is Active and the phase is Idle; MAIL in that phase is
\* answered 503; a successful EHLO over TLS lists the auth mechanisms after
\* 8BITMIME and does not list STARTTLS.
C9_StartTls ==
  /\ ( /\ Processed /\ Verb(line) = "StartTls"
       /\ before # None /\ before.id \in { "Hello", "HelloAuth" }
       /\ tls = "Inactive" )
     => res = START_TLS /\ res.code = 220 /\ res.action = "UpgradeTls" /\ smtp = Idle
  /\ line = TlsNotified => tls = "Active" /\ smtp = Idle /\ ~start_tls_extension
  /\ Processed /\ before = Idle /\ tls = "Active" /\ Verb(line) = "Mail"
     => res.code = 503 /\ smtp = Idle /\ calls = <<>>
  /\ Processed /\ Verb(line) = "Ehlo" /\ tls = "Active" /\ res.kind = "Dynamic"
     => res.tail = IF auth_mechanisms = <<>> THEN << "8BITMIME" >>
                   ELSE << "8BITMIME", "AUTH PLAIN" >>

C9_Witness ==
  /\ Processed /\ Verb(line) = "Ehlo"
  /\ before = Idle /\ tls = "Active"
  /\ res.tail = << "8BITMIME", "AUTH PLAIN" >>

\* "xest" as bytes
WrongId == << 120, 101, 115, 116 >>

\* C10: in phase HelloAuth with TLS active, AUTH PLAIN with an initial
\* response calls auth_plain once with the decoded identities and password;
\* on Ok the response is 235 and the phase is Hello; on InvalidCredentials
\* (535) and TemporaryFailure (454) the phase stays HelloAuth and the session
\* stays open; valid credentials are accepted whatever went before.
C10_AuthPlain ==
  ( /\ Processed /\ Verb(line) = "AuthPlain"
    /\ before # None /\ before.id = "HelloAuth"
    /\ tls = "Active" )
  => /\ Len(calls) = 1 /\ calls[1].fn = "auth_plain"
     /\ line = 13 => calls[1].args = << TestId, TestId, TestPassword >>
     /\ line = 14 => calls[1].args = << WrongId, TestId, TestPassword >>
     /\ handler = "AuthHandler" => (calls[1].result = "Ok" <=> line = 13)
     /\ calls[1].result = "Ok"
        => res.code = 235 /\ smtp = Hello(before.domain) /\ auth = "Authenticated"
     /\ calls[1].result = "InvalidCredentials"
        => res.code = 535 /\ res.action = "Reply" /\ smtp = before
     /\ calls[1].result = "TemporaryFailure"
        => res.code = 454 /\ res.action = "Reply" /\ smtp = before

C10_Witness ==
  /\ Processed /\ Verb(line) = "AuthPlain"
  /\ before # None /\ before.id = "HelloAuth"
  /\ handler = "AuthHandler"
  /\ calls # <<>> /\ calls[1].args = << TestId, TestId, TestPassword >>
  /\ res.code = 235 /\ smtp.id = "Hello"

\* C11: while TLS is not active, AUTH PLAIN, with or without an initial
\* response, is answered 503 in every command phase, no callback is invoked
\* and the phase is unchanged; auth_plain is only ever invoked, and the phase
\* Auth only ever entered, with TLS active.
C11_NoPlaintextAuth ==
  /\ ( /\ Processed /\ Verb(line) \in { "AuthPlain", "AuthPlainEmpty" }
       /\ before # None /\ before.id \in CommandPhases
       /\ tls # "Active" )
     => res = BAD_SEQUENCE_COMMANDS /\ calls = <<>> /\ smtp = before
  /\ \A k \in 1..Len(calls) : calls[k].fn = "auth_plain" => tls = "Active"
  /\ smtp.id = "Auth" => tls = "Active"

C11_Witness ==
  /\ Processed /\ Verb(line) = "AuthPlain"
  /\ before # None /\ before.id = "HelloAuth"
  /\ tls = "Inactive" /\ auth_plain
  /\ res.code = 503 /\ calls = <<>>

\* C12: in phase HelloAuth with TLS active, AUTH PLAIN without an initial
\* response is answered 334 with an empty challenge, invokes no callback and
\* enters phase Auth; in phase Auth every line is the client's response:
\* auth_plain is invoked once, with the credentials that the line carries,
\* and the answer is 235 and phase Hello when the handler accepts them, 535
\* and phase HelloAuth when it finds them invalid.
C12_AuthChallenge ==
  /\ ( /\ Processed /\ Verb(line) = "AuthPlainEmpty"
       /\ before # None /\ before.id = "HelloAuth" /\ tls = "Active" )
     => /\ res.code = 334 /\ res.text = "" /\ res.action = "Reply"
        /\ calls = <<>>
        /\ smtp = Auth(before.domain, "Plain")
  /\ ( Processed /\ before # None /\ before.id = "Auth" )
     => /\ Len(calls) = 1 /\ calls[1].fn = "auth_plain"
        /\ Lines[line] = Lines[16] => calls[1].args = << TestId, TestId, TestPassword >>
        /\ calls[1].result = "Ok"
           => res.code = 235 /\ smtp = Hello(before.domain) /\ auth = "Authenticated"
        /\ calls[1].result = "InvalidCredentials"
           => res.code = 535 /\ res.action = "Reply" /\ smtp = HelloAuth(before.domain)

\* C13: in phase Data, with a sink that accepts every write, a line that is
\* only "." ends the message and is not written; a line that begins with "."
\* and has more content is written without that first byte ("..X" becomes
\* ".X"); every other line is written verbatim, its CRLF included.
C13_ReverseDotStuffing ==
  ( /\ Processed /\ before # None /\ before.id = "Data"
    /\ handler # "AnyHandler" )
  => IF trim(Lines[line]) = << "." >>
     THEN smtp = Hello(before.domain) /\ dropped = before.writer
     ELSE /\ res.action = "NoReply"
          /\ smtp = [ before EXCEPT !.writer =
                        Append(@, IF Lines[line][1] = "." THEN Tail(Lines[line])
                                  ELSE Lines[line]) ]

\* C14: in phase Data no line before the terminator is answered, whether the
\* sink accepted it or failed on it, and the phase stays Data; the failure of
\* the sink is reported once, by the answer to the terminator, which returns
\* the session to phase Hello.
C14_SinkFailure ==
  ( Processed /\ before # None /\ before.id = "Data" )
  => IF trim(Lines[line]) = << "." >>
     THEN smtp.id = "Hello" => res.code \in { 250, 554 }
     ELSE res.action = "NoReply" /\ smtp.id = "Data"

Parsed(i) == bind(parse(Lines[i]), LAMBDA p : p.cmd)

\* "fish@sea.com" and "crab@sea.com", the forward paths of lines 3 and 21
Fish == Parsed(3).forward_path

Crab == Parsed(21).forward_path

\* C16: handler.data is called only for DATA in phase Rcpt, with the domain,
\* the reverse path, the 8-bit flag and the forward paths the phase holds;
\* the phase holds the domain of the last accepted HELO or EHLO, the reverse
\* path and the flag of the accepted MAIL, and the forward paths of the RCPT
\* commands the handler accepted since, in the order received: an accepted
\* RCPT appends its path, a rejected one leaves the list as it was.
C16_DataArguments ==
  ( Processed /\ before # None /\ before.id \in CommandPhases )
  => /\ ( Verb(line) \in { "Helo", "Ehlo" } /\ calls # <<>> /\ calls[1].result = "Ok" )
        => smtp.id \in { "Hello", "HelloAuth" } /\ smtp.domain = Parsed(line).domain
     /\ ( Verb(line) = "Mail" /\ calls # <<>> /\ calls[1].result = "Ok" )
        => smtp = Mail(before.domain, Parsed(line).reverse_path, Parsed(line).is8bit)
     /\ ( Verb(line) = "Rcpt" /\ before.id \in { "Mail", "Rcpt" } )
        => /\ Len(calls) = 1 /\ calls[1].fn = "rcpt"
           /\ calls[1].args = << Parsed(line).forward_path >>
           /\ IF calls[1].result = "Ok"
              THEN smtp = Rcpt(before.domain, before.reverse_path, before.is8bit,
                               IF before.id = "Rcpt"
                               THEN Append(before.forward_path, Parsed(line).forward_path)
                               ELSE << Parsed(line).forward_path >>)
              ELSE smtp \in { before, None }
     /\ ( Verb(line) = "Data" /\ before.id = "Rcpt" )
        => /\ Len(calls) = 1 /\ calls[1].fn = "data"
           /\ calls[1].args = << before.domain, before.reverse_path, before.is8bit,
                                 before.forward_path >>
           /\ calls[1].result = "Ok" => res.code = 354 /\ smtp = Data(before.domain, <<>>)
     /\ ( \E k \in 1..Len(calls) : calls[k].fn = "data" )
        => Verb(line) = "Data" /\ before.id = "Rcpt"

C16_Witness ==
  /\ Processed /\ Verb(line) = "Data"
  /\ before # None /\ before.id = "Rcpt"
  /\ before.is8bit /\ before.forward_path = << Fish, Crab >>
  /\ calls # <<>> /\ calls[1].args[4] = << Fish, Crab >> /\ calls[1].args[3] = TRUE
  /\ res.code = 354 /\ smtp.id = "Data"

\* C17: in phase Hello the line MAIL FROM:<> is a MAIL command with the empty
\* reverse path: handler.mail is called with the empty path, and when it
\* accepts the answer is 250 and the phase is Mail with the empty reverse path.
C17_NullReversePath ==
  ( /\ Processed /\ before # None /\ before.id = "Hello"
    /\ Lines[line] = Lines[23] )
  => /\ Len(calls) = 1 /\ calls[1].fn = "mail"
     /\ calls[1].args = << before.domain, <<>> >>
     /\ calls[1].result = "Ok"
        => res.code = 250 /\ smtp = Mail(before.domain, <<>>, FALSE)

\* C18: RSET is answered 250 in every command phase and invokes no callback;
\* from Idle the phase stays Idle; from every other command phase the paths
\* are discarded and the phase is Hello when no auth mechanism is configured
\* and HelloAuth when one is, also after a successful authentication.
C18_Rset ==
  ( /\ Processed /\ Verb(line) = "Rset"
    /\ before # None /\ before.id \in CommandPhases )
  => /\ res = OK /\ res.code = 250
     /\ calls = <<>>
     /\ smtp = IF before = Idle THEN Idle
               ELSE IF auth_mechanisms = <<>> THEN Hello(before.domain)
               ELSE HelloAuth(before.domain)

C18_Witness ==
  /\ Processed /\ Verb(line) = "Rset"
  /\ before # None /\ before.id = "Rcpt"
  /\ auth = "Authenticated"
  /\ res.code = 250 /\ smtp = HelloAuth(before.domain)

\* C19 as stated: in every phase other than Data an EHLO line invokes the
\* helo callback again.
C19_EhloEveryPhase ==
  ( /\ Processed /\ Verb(line) = "Ehlo"
    /\ before # None /\ before.id # "Data" )
  => Len(calls) = 1 /\ calls[1].fn = "helo"

\* C19: in every command phase (Idle, Hello, HelloAuth, Mail, Rcpt) an EHLO
\* line invokes the helo callback with the domain of the line; when the
\* handler accepts, the answer is 250 and the phase is Hello (HelloAuth when
\* an auth mechanism is configured) with that domain and no paths, and when
\* it rejects the phase is unchanged; in Hello and HelloAuth, RCPT and DATA
\* are answered 503 without a callback, so they are refused until a new MAIL.
C19_EhloCommandPhase ==
  /\ ( /\ Processed /\ Verb(line) = "Ehlo"
       /\ before # None /\ before.id \in CommandPhases )
     => /\ Len(calls) = 1 /\ calls[1].fn = "helo"
        /\ calls[1].args = << Parsed(line).domain >>
        /\ IF calls[1].result = "Ok"
           THEN /\ res.code = 250 /\ res.kind = "Dynamic" /\ res.action = "Reply"
                /\ smtp = IF auth_mechanisms = <<>> THEN Hello(Parsed(line).domain)
                          ELSE HelloAuth(Parsed(line).domain)
           ELSE res.is_error /\ smtp = before
  /\ ( /\ Processed /\ Verb(line) \in { "Rcpt", "Data" }
       /\ before # None /\ before.id \in { "Hello", "HelloAuth" } )
     => res = BAD_SEQUENCE_COMMANDS /\ calls = <<>> /\ smtp = before

C19_Witness ==
  /\ Processed /\ Verb(line) = "Ehlo"
  /\ before # None /\ before.id = "Rcpt"
  /\ calls # <<>> /\ calls[1].fn = "helo" /\ calls[1].result = "Ok"
  /\ res.code = 250 /\ smtp = Hello(Parsed(line).domain)

colon_space(buf) == and_then(tag(<<":">>, buf), LAMBDA c : space(c.rest))

match_header_key(name, buf) ==
  and_then(tag_no_case(name, buf), LAMBDA k : colon_space(k.rest))

header_value_with_parameters(buf) == is_not({";", CR, LF}, buf)

ctl == {CR, LF}

tspecial == {"(", ")", "<", ">", "@", ",", ";", ":", "\\", "\"", "/", "[", "]", "?", "="}

token(buf) == is_not({" "} \cup tspecial \cup ctl, buf)

\* The loop of in_quotes from index i on; a backslash as the last byte makes
\* the loop index past the end of the buffer, which ends the parse
RECURSIVE in_quotes_loop(_, _, _)
in_quotes_loop(buf, i, ret) ==
  IF i <= Len(buf) /\ buf[i] # "\""
  THEN IF buf[i] = "\\"
       THEN IF i + 1 <= Len(buf)
            THEN in_quotes_loop(buf, i + 2, Append(ret, buf[i + 1]))
            ELSE Err
       ELSE in_quotes_loop(buf, i + 1, Append(ret, buf[i]))
  ELSE Done(Skip(buf, i - 1), ret)

in_quotes(buf) == in_quotes_loop(buf, 1, <<>>)

quoted_string(buf) ==
  and_then(tag(<<"\"">>, buf), LAMBDA q :
    and_then(in_quotes(q.rest), LAMBDA s :
      value(s.val, tag(<<"\"">>, s.rest))))

parameter_value(buf) == alt(token(buf), quoted_string(buf))

parameter(buf) ==
  and_then(tag(<<";">>, buf), LAMBDA s :
    and_then(space(s.rest), LAMBDA sp :
      and_then(token(sp.rest), LAMBDA attribute :
        and_then(tag(<<"=">>, attribute.rest), LAMBDA eq :
          map(parameter_value(eq.rest),
              LAMBDA v : [attribute |-> attribute.val, value |-> v])))))

\* HashMap::new
HashMap_new == [k \in {} |-> <<>>]

\* HashMap::insert
HashMap_insert(acc, k, v) == (k :> v) @@ acc

\* fold_many0(parameter, HashMap::new, insert): parameters are read until
\* one does not parse
RECURSIVE fold_many0_parameter(_, _)
fold_many0_parameter(buf, acc) ==
  bind(parameter(buf), LAMBDA r :
    IF r.ok
    THEN fold_many0_parameter(r.rest, HashMap_insert(acc, r.val.attribute, r.val.value))
    ELSE Done(buf, acc))

parameters(buf) == fold_many0_parameter(buf, HashMap_new)

\* Parse a header field followed by parameters
header_with_params(name, buf) ==
  and_then(match_header_key(name, buf), LAMBDA k :
    and_then(header_value_with_parameters(k.rest), LAMBDA v :
      and_then(parameters(v.rest), LAMBDA p :
        value([value |-> v.val, params |-> p.val], tag(<<CR, LF>>, p.rest)))))

content(buf) ==
  map(header_with_params(<<"C", "o", "n", "t", "e", "n", "t", "-", "T", "y",
                        "p", "e">>, buf),
      LAMBDA v : [h |-> "ContentType", mime_type |-> v.value, parameters |-> v.params])

content_disposition(buf) ==
  map(header_with_params(<<"C", "o", "n", "t", "e", "n", "t", "-", "D", "i",
                        "s", "p", "o", "s", "i", "t", "i", "o", "n">>, buf),
      LAMBDA v : [h |-> "ContentDisposition", disposition_type |-> v.value,
                  parameters |-> v.params])

unstructured_value(buf) == is_not({CR, LF}, buf)

match_unstructured(name, buf) ==
  and_then(match_header_key(name, buf), LAMBDA k :
    and_then(unstructured_value(k.rest), LAMBDA v :
      value(v.val, tag(<<CR, LF>>, v.rest))))

\* A header whose value is kept as it is
Field(h, r) == map(r, LAMBDA v : [h |-> h, value |-> v])

from(buf) == Field("From", match_unstructured(<<"F", "r", "o", "m">>, buf))

to(buf) == Field("To", match_unstructured(<<"T", "o">>, buf))

subject(buf) ==
  Field("Subject", match_unstructured(<<"S", "u", "b", "j", "e", "c", "t">>, buf))

sender(buf) == Field("Sender", match_unstructured(<<"S", "e", "n", "d", "e", "r">>, buf))

reply_to(buf) ==
  Field("ReplyTo", match_unstructured(<<"R", "e", "p", "l", "y", "-", "T", "o">>, buf))

message_id(buf) ==
  Field("MessageId",
        match_unstructured(<<"M", "e", "s", "s", "a", "g", "e", "-", "I", "D">>, buf))

date(buf) == Field("Date", match_unstructured(<<"D", "a", "t", "e">>, buf))

content_description(buf) ==
  Field("ContentDescription", match_unstructured(<<"C", "o", "n", "t", "e", "n", "t", "-", "D", "e", "s", "c", "r",
            "i", "p", "t", "i", "o", "n">>, buf))

header_key(buf) == is_not({":", " "}, buf)

unstructured(buf) ==
  and_then(header_key(buf), LAMBDA key :
    and_then(colon_space(key.rest), LAMBDA c :
      and_then(unstructured_value(c.rest), LAMBDA v :
        value([h |-> "Unstructured", key |-> key.val, value |-> v.val],
              tag(<<CR, LF>>, v.rest)))))

header_end(buf) == value([h |-> "End"], tag(<<CR, LF>>, buf))

\* Parse a header line: the first alternative that matches; Err is the
\* io::Error of kind InvalidData
header(buf) ==
  alt(header_end(buf),
  alt(content(buf),
  alt(from(buf),
  alt(to(buf),
  alt(subject(buf),
  alt(sender(buf),
  alt(reply_to(buf),
  alt(message_id(buf),
  alt(date(buf),
  alt(content_disposition(buf),
  alt(content_description(buf),
      unstructured(buf))))))))))))

\* ---------------------------------------------------------------------------
\* mime-event/src/event.rs, header_buffer.rs and parser.rs: the event parser.
\* An Option is [some |-> FALSE] or [some |-> TRUE, val |-> v]; a Mime is
\* [mime |-> "Multipart", multipart |-> kind] or [mime |-> "Type", type |-> v].
\* ---------------------------------------------------------------------------

Option_None == [some |-> FALSE]

Option_Some(v) == [some |-> TRUE, val |-> v]

Mime_Multipart(m) == [mime |-> "Multipart", multipart |-> m]

Mime_Type(v) == [mime |-> "Type", type |-> v]

to_lowercase(v) == [i \in 1..Len(v) |-> to_lower(v[i])]

mime_type(v) ==
  IF from_utf8_ok(v)
  THEN CASE to_lowercase(v) = <<"m", "u", "l", "t", "i", "p", "a", "r", "t", "/", "a", "l",
                 "t", "e", "r", "n", "a", "t", "i", "v", "e">>
              -> Mime_Multipart("Alternative")
         [] to_lowercase(v) = <<"m", "u", "l", "t", "i", "p", "a", "r", "t", "/", "m", "i",
                 "x", "e", "d">>
              -> Mime_Multipart("Mixed")
         [] to_lowercase(v) = <<"m", "u", "l", "t", "i", "p", "a", "r", "t", "/", "d", "i",
                 "g", "e", "s", "t">>
              -> Mime_Multipart("Digest")
         [] OTHER -> Mime_Type(v)
  ELSE Mime_Type(v)

\* Events sent to a Handler
Event_Start == [ev |-> "Start"]

Event_Header(h) == [ev |-> "Header", header |-> h]

Event_MultipartStart(m) == [ev |-> "MultipartStart", multipart |-> m]

Event_PartStart(offset) == [ev |-> "PartStart", offset |-> offset]

Event_BodyStart(offset) == [ev |-> "BodyStart", offset |-> offset]

Event_Body(buf) == [ev |-> "Body", data |-> buf]

Event_PartEnd(offset) == [ev |-> "PartEnd", offset |-> offset]

Event_MultipartEnd == [ev |-> "MultipartEnd"]

Event_End == [ev |-> "End"]

starts_with(buf, b) == Len(buf) >= Len(b) /\ SubSeq(buf, 1, Len(b)) = b

ends_with(buf, b) ==
  Len(buf) >= Len(b) /\ SubSeq(buf, Len(buf) - Len(b) + 1, Len(buf)) = b

\* HeaderBuffer::default
HeaderBuffer_default == [has_value |-> FALSE, length |-> 0, line |-> <<>>]

\* next_line with the length of a continuation line replacing the length
\* of the lines before it
next_line_last_length(hb, l) ==
  IF ~hb.has_value
  THEN [buffer |-> [has_value |-> TRUE, length |-> Len(l), line |-> l],
        ret |-> Option_None]
  ELSE IF starts_with(l, <<" ">>)
       THEN [buffer |-> [hb EXCEPT !.line = SubSeq(@, 1, Len(@) - 2) \o l,
                                   !.length = Len(l)],
             ret |-> Option_None]
       ELSE [buffer |-> [hb EXCEPT !.line = l, !.length = Len(l)],
             ret |-> Option_Some([line |-> hb.line, length |-> hb.length])]

\* HeaderBuffer::next_line: the buffer after the call and the value returned
next_line(hb, l) ==
  IF ~hb.has_value
  THEN [buffer |-> [has_value |-> TRUE, length |-> Len(l), line |-> l],
        ret |-> Option_None]
  ELSE IF starts_with(l, <<" ">>)
       THEN [buffer |-> [hb EXCEPT !.line = SubSeq(@, 1, Len(@) - 2) \o l,
                                   !.length = @ + Len(l)],
             ret |-> Option_None]
       ELSE [buffer |-> [hb EXCEPT !.line = l, !.length = Len(l)],
             ret |-> Option_Some([line |-> hb.line, length |-> hb.length])]

\* HeaderBuffer::take
take(hb) ==
  IF hb.has_value
  THEN [buffer |-> HeaderBuffer_default,
        ret |-> Option_Some([line |-> hb.line, length |-> hb.length])]
  ELSE [buffer |-> hb, ret |-> Option_None]

\* EventParser::new.  The field writer holds the chunks handed to the inner
\* writer, the field handler the events delivered to the handler, and err
\* is set when a call returned an io::Error.
EventParser_new ==
  [state |-> "Start", offset |-> 0,
   content_type |-> Mime_Type(<<"t", "e", "x", "t", "/", "p", "l", "a", "i", "n">>),
   boundary |-> Option_None, multipart_stack |-> <<>>,
   header_buffer |-> HeaderBuffer_default,
   writer |-> <<>>, handler |-> <<>>, err |-> FALSE]

\* self.handler.event(ev)
Handler_event(self, ev) == [self EXCEPT !.handler = Append(@, ev)]

\* self.writer.write_all(buf)
Write_write_all(self, buf) == [self EXCEPT !.writer = Append(@, buf)]

is_open_boundary(self, buf) ==
  self.boundary.some /\ starts_with(buf, self.boundary.val)

is_close_boundary(self, buf) ==
  /\ self.boundary.some
  /\ starts_with(buf, self.boundary.val)
  /\ Len(buf) > Len(self.boundary.val) + 2
  /\ ends_with(buf, <<"-", "-", CR, LF>>)

Boundary == <<"b", "o", "u", "n", "d", "a", "r", "y">>

\* Handle Content-Type headers
EventParser_content_type(self, mtype, params) ==
  bind([self EXCEPT
          !.multipart_stack =
             IF self.content_type.mime = "Multipart" /\ self.boundary.some
             THEN Append(@, [content_type |-> self.content_type.multipart,
                             boundary |-> self.boundary.val])
             ELSE @,
          !.content_type = mime_type(mtype)],
       LAMBDA s :
         IF s.content_type.mime = "Multipart"
         THEN [s EXCEPT !.boundary =
                 IF Boundary \in DOMAIN params
                 THEN Option_Some(<<"-", "-">> \o params[Boundary])
                 ELSE Option_None]
         ELSE s)

\* header_field returns the next state, which handle_line assigns to
\* self.state; here it is assigned at once.  On an error of the line parser
\* nothing is assigned.
header_field(self, buf, state) ==
  IF starts_with(buf, <<CR, LF>>)
  THEN IF state = "MultipartHeader"
       THEN [self EXCEPT !.state = "MultipartPreamble"]
       ELSE [Handler_event(self, Event_BodyStart(self.offset + 2)) EXCEPT !.state = "Body"]
  ELSE bind(header(buf), LAMBDA tok :
         IF ~tok.ok
         THEN [self EXCEPT !.err = TRUE]
         ELSE bind(IF tok.val.h = "ContentType"
                   THEN EventParser_content_type(self, tok.val.mime_type,
                                                 tok.val.parameters)
                   ELSE self,
                   LAMBDA s :
                     [Handler_event(s, Event_Header(tok.val)) EXCEPT
                        !.state = IF s.content_type.mime = "Multipart"
                                  THEN "MultipartHeader"
                                  ELSE state]))

\* The arm of the match of handle_line for State::MultipartPreamble
handle_line_MultipartPreamble(self, buf) ==
  IF is_open_boundary(self, buf)
  THEN [(IF self.content_type.mime = "Multipart"
         THEN Handler_event(self, Event_MultipartStart(self.content_type.multipart))
         ELSE self) EXCEPT !.state = "PartStart"]
  ELSE self

\* The arm of the match of handle_line for State::Body
handle_line_Body(self, buf) ==
  IF is_close_boundary(self, buf)
  THEN bind(Handler_event(Handler_event(self, Event_PartEnd(self.offset)),
                          Event_MultipartEnd),
            LAMBDA s :
              \* Use last multipart if available
              IF s.multipart_stack # <<>>
              THEN bind(s.multipart_stack[Len(s.multipart_stack)], LAMBDA last :
                     [s EXCEPT !.multipart_stack = SubSeq(@, 1, Len(@) - 1),
                               !.content_type = Mime_Multipart(last.content_type),
                               !.boundary = Option_Some(last.boundary),
                               !.state = "Header"])
              ELSE [s EXCEPT !.state = "Header"])
  ELSE IF is_open_boundary(self, buf)
       THEN [Handler_event(self, Event_PartEnd(self.offset)) EXCEPT !.state = "PartStart"]
       ELSE Handler_event(self, Event_Body(buf))

\* Called when a complete line of data is available
handle_line(self, buf, buf_len) ==
  bind(Write_write_all(self, buf), LAMBDA w :
    bind(CASE w.state = "MultipartHeader" -> header_field(w, buf, "MultipartHeader")
           [] w.state = "Header" -> header_field(w, buf, "Header")
           [] w.state = "PartStart" ->
                header_field(Handler_event(w, Event_PartStart(w.offset)), buf, "Header")
           [] w.state = "MultipartPreamble" -> handle_line_MultipartPreamble(w, buf)
           [] w.state = "Body" -> handle_line_Body(w, buf),
         LAMBDA s : IF s.err THEN s ELSE [s EXCEPT !.offset = @ + buf_len]))

EventParser_handle_header(self, buf) ==
  IF starts_with(buf, <<CR, LF>>)
  THEN bind(take(self.header_buffer), LAMBDA t :
         bind(IF t.ret.some
              THEN handle_line([self EXCEPT !.header_buffer = t.buffer],
                               t.ret.val.line, t.ret.val.length)
              ELSE self,
              LAMBDA s : IF s.err THEN s ELSE handle_line(s, buf, Len(buf))))
  ELSE bind(next_line(self.header_buffer, buf), LAMBDA n :
         IF n.ret.some
         THEN handle_line([self EXCEPT !.header_buffer = n.buffer],
                          n.ret.val.line, n.ret.val.length)
         ELSE [self EXCEPT !.header_buffer = n.buffer])

\* Called when data is written to the writer
handle_write(self, buf) ==
  bind(Write_write_all(self, buf), LAMBDA w :
    CASE w.state = "Start" ->
           EventParser_handle_header(
             [Handler_event(w, Event_Start) EXCEPT !.state = "Header"], buf)
      [] w.state \in {"Header", "MultipartHeader", "PartStart"} ->
           EventParser_handle_header(w, buf)
      [] OTHER -> handle_line(w, buf, Len(buf)))

\* impl Drop for EventParser
EventParser_drop(self) == Handler_event(self, Event_End)

\* ---------------------------------------------------------------------------
\* mime-event/src/message.rs and message_handler.rs: the handler that builds
\* a Message from the events.  Indices into parts count from 0, as in the
\* code.
\* ---------------------------------------------------------------------------

HeaderFields_default ==
  [message_id |-> Option_None, from |-> Option_None, to |-> Option_None,
   date |-> Option_None, subject |-> Option_None, sender |-> Option_None,
   reply_to |-> Option_None]

Part_default ==
  [header |-> HeaderFields_default, content_type |-> Option_None,
   content_disposition |-> Option_None, start |-> 0, body_start |-> 0, end |-> 0]

Message_default ==
  [top |-> 0, text |-> Option_None, html |-> Option_None, attachments |-> <<>>,
   inlines |-> <<>>, other |-> <<>>, parts |-> <<>>]

MessageHandler_default ==
  [is_multipart |-> FALSE, target |-> "Top", current_part |-> Part_default,
   message |-> Message_default]

TextPlain == <<"t", "e", "x", "t", "/", "p", "l", "a", "i", "n">>

TextHtml == <<"t", "e", "x", "t", "/", "h", "t", "m", "l">>

is_content(content_type, check_is) ==
  /\ content_type.some
  /\ content_type.val.mime_type.mime = "Type"
  /\ content_type.val.mime_type.type = check_is

is_content_text(content_type) ==
  ~content_type.some \/ is_content(content_type, TextPlain)

MessageHandler_content_type(self, mime_text, parameter_refs) ==
  [self EXCEPT !.current_part.content_type =
     Option_Some([mime_type |-> mime_type(mime_text), parameters |-> parameter_refs])]

\* Use the content disposition to set a more accurate target for this part
MessageHandler_content_disposition(self, disposition_type) ==
  IF self.target # "Top" /\ self.target # "TopAlternative"
  THEN [self EXCEPT !.target =
          CASE disposition_type = <<"i", "n", "l", "i", "n", "e">> -> "Inlines"
            [] disposition_type = <<"a", "t", "t", "a", "c", "h", "m", "e", "n", "t">>
                 -> "Attachments"
            [] OTHER -> "Other"]
  ELSE self

MessageHandler_handle_header(self, h) ==
  CASE h.h = "From" -> [self EXCEPT !.current_part.header.from = Option_Some(h.value)]
    [] h.h = "To" -> [self EXCEPT !.current_part.header.to = Option_Some(h.value)]
    [] h.h = "Date" -> [self EXCEPT !.current_part.header.date = Option_Some(h.value)]
    [] h.h = "Subject" ->
         [self EXCEPT !.current_part.header.subject = Option_Some(h.value)]
    [] h.h = "Sender" ->
         [self EXCEPT !.current_part.header.sender = Option_Some(h.value)]
    [] h.h = "ReplyTo" ->
         [self EXCEPT !.current_part.header.reply_to = Option_Some(h.value)]
    [] h.h = "MessageId" ->
         [self EXCEPT !.current_part.header.message_id = Option_Some(h.value)]
    [] h.h = "ContentType" -> MessageHandler_content_type(self, h.mime_type, h.parameters)
    [] h.h = "ContentDisposition" ->
         MessageHandler_content_disposition(self, h.disposition_type)
    [] OTHER -> self

\* Set the default target for all parts in this multipart
multipart_start(self, multipart) ==
  [self EXCEPT !.target =
     CASE multipart = "Alternative" /\ self.target = "Top" -> "TopAlternative"
       [] multipart = "Alternative" /\ self.target # "Top" -> "Alternative"
       [] multipart = "Mixed" /\ self.target = "Top" -> "FirstMixed"
       [] multipart = "Mixed" /\ self.target # "Top" -> "Attachments"
       [] multipart = "Digest" -> "Attachments"]

part_start(self, offset) ==
  [self EXCEPT !.is_multipart = TRUE, !.current_part.start = offset]

\* Add a new part (take_current leaves a default part behind); the index of
\* the new part is Len(parts) - 1 afterwards
add_part(self) ==
  [self EXCEPT !.message.parts = Append(@, self.current_part),
               !.current_part = Part_default]

part_end(self, offset) ==
  bind(self.current_part.content_type, LAMBDA content_type :
    bind(add_part([self EXCEPT !.current_part.end = offset]), LAMBDA s :
      bind(Len(s.message.parts) - 1, LAMBDA part_index :
        CASE s.target = "Top" ->
               [s EXCEPT !.message.top = part_index,
                         !.message.text = IF is_content_text(content_type)
                                          THEN Option_Some(part_index) ELSE @]
          [] s.target = "TopAlternative" /\ is_content_text(content_type) ->
               [s EXCEPT !.message.top = part_index,
                         !.message.text = Option_Some(part_index)]
          [] s.target = "TopAlternative" /\ ~is_content_text(content_type)
               /\ is_content(content_type, TextHtml) ->
               [s EXCEPT !.message.html = Option_Some(part_index)]
          [] s.target = "TopAlternative" /\ ~is_content_text(content_type)
               /\ ~is_content(content_type, TextHtml) ->
               [s EXCEPT !.message.top = part_index]
          [] s.target = "FirstMixed" ->
               [s EXCEPT !.message.top = part_index, !.target = "Attachments"]
          [] s.target = "Alternative" ->
               [s EXCEPT !.message.attachments = Append(@, part_index)]
          [] s.target = "Attachments" ->
               [s EXCEPT !.message.attachments = Append(@, part_index)]
          [] s.target = "Inlines" ->
               [s EXCEPT !.message.inlines = Append(@, part_index)]
          [] s.target = "Other" ->
               [s EXCEPT !.message.other = Append(@, part_index)])))

body_start(self, offset) == [self EXCEPT !.current_part.body_start = offset]

MessageHandler_end(self) ==
  bind(self.current_part.content_type, LAMBDA content_type :
    IF ~self.is_multipart
    THEN bind(add_part(self), LAMBDA s :
           [s EXCEPT !.message.top = Len(s.message.parts) - 1,
                     !.message.text = IF is_content_text(content_type)
                                      THEN Option_Some(Len(s.message.parts) - 1)
                                      ELSE @])
    ELSE self)

\* impl Handler for MessageHandler
MessageHandler_event(self, ev) ==
  CASE ev.ev = "Header" -> MessageHandler_handle_header(self, ev.header)
    [] ev.ev = "MultipartStart" -> multipart_start(self, ev.multipart)
    [] ev.ev = "PartStart" -> part_start(self, ev.offset)
    [] ev.ev = "PartEnd" -> part_end(self, ev.offset)
    [] ev.ev = "BodyStart" -> body_start(self, ev.offset)
    [] ev.ev = "End" -> MessageHandler_end(self)
    [] OTHER -> self

\* The handler after the events evs[from..Len(evs)], in order
RECURSIVE MessageHandler_events(_, _, _)
MessageHandler_events(self, evs, from_index) ==
  IF from_index > Len(evs)
  THEN self
  ELSE MessageHandler_events(MessageHandler_event(self, evs[from_index]), evs,
                             from_index + 1)

\* end - start in usize arithmetic when end < start: a build with overflow
\* checks panics with this message, a build without them wraps modulo 2^64
SubtractOverflow == << "attempt to subtract with overflow" >>

\* Part::body: start and length of the body
Part_body(part) ==
  IF part.end >= part.body_start
  THEN << part.body_start, part.end - part.body_start + 1 >>
  ELSE SubtractOverflow

\* Part::position: start and length of the part
Part_position(part) ==
  IF part.end >= part.start
  THEN << part.start, part.end - part.start + 1 >>
  ELSE SubtractOverflow

\* ---------------------------------------------------------------------------
\* The event parser at work: a caller writes the lines of a document, one
\* line per write_all as the tests of the crate do (tests/events.rs,
\* tests/message.rs: parse_message), and drops the parser at the end or after
\* a write returned an error.  The handler is a MessageHandler; the events it
\* was sent are recorded in parser.handler.
\* ---------------------------------------------------------------------------

\* The lines a document is made of:
\*  1 Subject: a            2 (SP)b, a continuation line
\*  3 Content-Type: multipart/mixed; boundary=m
\*  4 Content-Type: multipart/alternative; boundary=a
\*  5 Content-Type: multipart/digest; boundary=d
\*  6 Content-Type: text/plain     7 Content-Type: text/html
\*  8 Content-Disposition: inline  9 the empty line
\* 10 --m   11 --m--   12 --a   13 --a--   14 --d   15 --d--   16 text
HTAB == "\t"

MimeLines ==
  << <<"S", "u", "b", "j", "e", "c", "t", ":", " ", "a", CR, LF>>,
     <<" ", "b", CR, LF>>,
     <<"C", "o", "n", "t", "e", "n", "t", "-", "T", "y", "p", "e", ":",
         " ", "m", "u", "l", "t", "i", "p", "a", "r", "t", "/", "m", "i",
         "x", "e", "d", ";", " ", "b", "o", "u", "n", "d", "a", "r", "y",
         "=", "m", CR, LF>>,
     <<"C", "o", "n", "t", "e", "n", "t", "-", "T", "y", "p", "e", ":",
         " ", "m", "u", "l", "t", "i", "p", "a", "r", "t", "/", "a", "l",
         "t", "e", "r", "n", "a", "t", "i", "v", "e", ";", " ", "b", "o",
         "u", "n", "d", "a", "r", "y", "=", "a", CR, LF>>,
     <<"C", "o", "n", "t", "e", "n", "t", "-", "T", "y", "p", "e", ":",
         " ", "m", "u", "l", "t", "i", "p", "a", "r", "t", "/", "d", "i",
         "g", "e", "s", "t", ";", " ", "b", "o", "u", "n", "d", "a", "r",
         "y", "=", "d", CR, LF>>,
     <<"C", "o", "n", "t", "e", "n", "t", "-", "T", "y", "p", "e", ":",
         " ", "t", "e", "x", "t", "/", "p", "l", "a", "i", "n", CR, LF>>,
     <<"C", "o", "n", "t", "e", "n", "t", "-", "T", "y", "p", "e", ":",
         " ", "t", "e", "x", "t", "/", "h", "t", "m", "l", CR, LF>>,
     <<"C", "o", "n", "t", "e", "n", "t", "-", "D", "i", "s", "p", "o",
         "s", "i", "t", "i", "o", "n", ":", " ", "i", "n", "l", "i", "n",
         "e", CR, LF>>,
     <<CR, LF>>,
     <<"-", "-", "m", CR, LF>>,
     <<"-", "-", "m", "-", "-", CR, LF>>,
     <<"-", "-", "a", CR, LF>>,
     <<"-", "-", "a", "-", "-", CR, LF>>,
     <<"-", "-", "d", CR, LF>>,
     <<"-", "-", "d", "-", "-", CR, LF>>,
     <<"t", "e", "x", "t", CR, LF>>,
     <<"-", "-", "m", "x", CR, LF>>,
     <<"-", "-", "m", "x", "-", "-", CR, LF>>,
     <<HTAB, "b", CR, LF>> >>

\* The most parts of a multipart
MaxParts == 3

\* The header lines of a part: none; text/plain; text/html; text/plain to
\* be shown inline; a folded Subject and no Content-Type
PartHeaders == << <<>>, <<6>>, <<7>>, <<6, 8>>, <<1, 2>> >>

\* The body lines of such a part; the text/html part has an empty body
PartBody == << <<16>>, <<16>>, <<>>, <<16>>, <<16>> >>

\* A part that is not a multipart: its header, the empty line, its body
Leaf(v) == PartHeaders[v] \o <<9>> \o PartBody[v]

\* A part that is a multipart/digest of two parts
DigestPart == <<5, 9, 14>> \o Leaf(1) \o <<14>> \o Leaf(1) \o <<15>>

\* A child of the root multipart: one of the leaves, or the digest
Children == 1..(Len(PartHeaders) + 1)

Child(c) == IF c <= Len(PartHeaders) THEN Leaf(c) ELSE DigestPart

\* The lines of the parts cs[from_index..], each after the delimiter open
RECURSIVE Parts(_, _, _)
Parts(cs, open, from_index) ==
  IF from_index > Len(cs)
  THEN <<>>
  ELSE << open >> \o Child(cs[from_index]) \o Parts(cs, open, from_index + 1)

\* A multipart document: folded Subject, Content-Type, the empty line, the
\* parts, the closing delimiter, and the empty line parse_message writes
\* for a file that ends with a line feed
Multipart(content_type, open, close, cs, trailing) ==
  <<1, 2, content_type, 9>> \o Parts(cs, open, 1) \o << close >>
    \o (IF trailing THEN <<9>> ELSE <<>>)

MultipartDocuments ==
  { Multipart(k[1], k[2], k[3], cs, trailing) :
      k \in { <<3, 10, 11>>, <<4, 12, 13>> },
      cs \in UNION { [1..n -> Children] : n \in 1..MaxParts },
      trailing \in BOOLEAN }

\* The most body lines of a document that is not a multipart
MaxBodyLines == 2

\* A document that is not a multipart: nothing at all, a header that is not
\* ended, or a header, the empty line and the body
SimpleDocuments ==
  { <<>>, <<1>>, <<1, 2>> } \cup
  { h \o <<9>> \o [i \in 1..n |-> 16] :
      h \in { <<>>, <<1, 2>>, <<6>>, <<7>>, <<1, 2, 6>> }, n \in 0..MaxBodyLines }

\* A multipart/mixed document with one text/plain part that has a body line
\* beginning with the delimiter without being it ("--mx", "--mx--"), and such
\* a line as the body of a document without a boundary
BoundaryLikeDocuments ==
  { <<1, 2, 3, 9, 10, 6, 9>> \o b \o <<11>> : b \in { <<17>>, <<18>>, <<16, 17>> } }
    \cup { <<6, 9, 17>> }

\* A Subject header folded with a horizontal tab
TabFoldDocuments == { <<1, 19, 9, 16>>, <<1, 19, 6, 9, 16>> }

Documents ==
  SimpleDocuments \cup MultipartDocuments \cup BoundaryLikeDocuments \cup TabFoldDocuments

\* Everything but the parser is as after construction and stays so
NoSession ==
  /\ Build
  /\ handler = "EmptyHandler" /\ auth_mechanisms = <<>> /\ start_tls_extension = FALSE
  /\ script = <<>> /\ pos = 0 /\ replies = <<>> /\ running = FALSE

\* MessageParser::new
InitMime ==
  /\ NoSession /\ NoDns /\ NoServer /\ NoStore
  /\ document \in Documents
  /\ nwritten = 0
  /\ parser = EventParser_new
  /\ message_handler = MessageHandler_default
  /\ ended = FALSE

\* The handler is sent the events the parser added in this step
Deliver ==
  message_handler' =
    MessageHandler_events(message_handler, parser'.handler, Len(parser.handler) + 1)

\* parser.write_all(line) for the next line of the document
Write ==
  /\ ~ended
  /\ ~parser.err
  /\ nwritten < Len(document)
  /\ parser' = handle_write(parser, MimeLines[document[nwritten + 1]])
  /\ nwritten' = nwritten + 1
  /\ Deliver
  /\ UNCHANGED << document, ended, sessionVars, dnsVars, serverVars, storeVars >>

\* The parser is dropped: after the last line, or when write_all returned an
\* error (parse_message returns the error with ?)
Drop ==
  /\ ~ended
  /\ parser.err \/ nwritten = Len(document)
  /\ parser' = EventParser_drop(parser)
  /\ ended' = TRUE
  /\ Deliver
  /\ UNCHANGED << document, nwritten, sessionVars, dnsVars, serverVars, storeVars >>

NextMime == Write \/ Drop

SpecMime == InitMime /\ [][NextMime]_vars

\* ---------------------------------------------------------------------------
\* Properties of the event parser and of the message handler
\* ---------------------------------------------------------------------------

\* The events the handler was sent
Events == parser.handler

\* How many events of one kind it was sent
Count(ev) == Cardinality({ i \in 1..Len(Events) : Events[i].ev = ev })

\* Every line of the document was written, no write returned an error, and
\* the parser was dropped
Consumed == ended /\ ~parser.err /\ nwritten = Len(document)

\* C21: for every multipart document that the parser consumes without error,
\* nested multiparts included, the PartStart events are balanced by PartEnd
\* events and the MultipartStart events by MultipartEnd events in each
\* nesting scope, hence in total.
C21_Balanced ==
  Consumed /\ document \in MultipartDocuments =>
    /\ Count("PartStart") = Count("PartEnd")
    /\ Count("MultipartStart") = Count("MultipartEnd")

\* C22: the events of a parse that was finalised begin with the one Start
\* and end with the one End, whatever was written, nothing included; before
\* the parser is dropped no End is sent and the first write has sent Start.
C22_StartEndBracket ==
  /\ ended => /\ Events # <<>>
              /\ Events[1] = Event_Start
              /\ Events[Len(Events)] = Event_End
              /\ Count("Start") = 1
              /\ Count("End") = 1
  /\ ~ended => /\ Count("End") = 0
               /\ Count("Start") = (IF nwritten = 0 THEN 0 ELSE 1)
               /\ nwritten > 0 => Events[1] = Event_Start

\* How many bytes the first n lines of the document have
RECURSIVE BytesOf(_)
BytesOf(n) == IF n = 0 THEN 0 ELSE BytesOf(n - 1) + Len(MimeLines[document[n]])

\* The events that carry an offset, in the order they were sent
OffsetEvents == SelectSeq(Events, LAMBDA e : e.ev \in {"PartStart", "BodyStart", "PartEnd"})

\* The lines the parser takes for delimiters
Delimiters == {10, 11, 12, 13, 14, 15, 17, 18}

\* The number of the last delimiter line among the first n lines (0 if none)
RECURSIVE LastDelimiter(_)
LastDelimiter(n) ==
  IF n = 0 \/ document[n] \in Delimiters THEN n ELSE LastDelimiter(n - 1)

\* The offset an event must carry when it is sent by the write of line k:
\* PartEnd the bytes before the delimiter line k, BodyStart the bytes up to
\* and with the empty line k, PartStart the bytes up to and with the
\* delimiter line that opened the part
ExactOffset(e, k) ==
  CASE e.ev = "PartEnd" -> e.offset = BytesOf(k - 1)
    [] e.ev = "BodyStart" -> e.offset = BytesOf(k)
    [] e.ev = "PartStart" -> e.offset = BytesOf(LastDelimiter(k - 1))
    [] OTHER -> TRUE

Message == message_handler.message

\* The document has the line l
HasLine(l) == \E i \in 1..Len(document) : document[i] = l

\* The document is a multipart whose Content-Type line is the line kind
Root(kind) == document \in MultipartDocuments /\ document[3] = kind

\* The indices (from 0) of the parts with the given content type
PartsOfType(t) ==
  { i \in 0..(Len(Message.parts) - 1) : is_content(Message.parts[i + 1].content_type, t) }

Min(S) == CHOOSE x \in S : \A y \in S : x <= y

\* C24: when a multipart/alternative document whose parts are not
\* multiparts is consumed, the first text/plain part is top and text, a later
\* text/plain part does not replace it, and html is a text/html part.
C24_FirstTextPlain ==
  Consumed /\ Root(4) /\ ~HasLine(5) =>
    /\ PartsOfType(TextPlain) # {} =>
         /\ Message.top = Min(PartsOfType(TextPlain))
         /\ Message.text = Option_Some(Min(PartsOfType(TextPlain)))
    /\ PartsOfType(TextHtml) # {} =>
         /\ Message.html.some
         /\ Message.html.val \in PartsOfType(TextHtml)

\* C25: when a multipart/mixed document without Content-Disposition whose
\* first part is not a multipart is consumed, the first part is top and the
\* parts after it, those of a nested multipart/digest included, are the
\* attachments, in the order of their PartEnd events.
C25_MixedAttachments ==
  Consumed /\ Root(3) /\ ~HasLine(8) /\ document[6] # 5 =>
    /\ Message.parts # <<>>
    /\ Message.top = 0
    /\ Message.attachments = [i \in 1..(Len(Message.parts) - 1) |-> i]
    /\ Message.inlines = <<>>
    /\ Message.other = <<>>
    /\ \A i \in 1..(Len(Message.parts) - 1) :
         Message.parts[i].end < Message.parts[i + 1].end

\* The number of the line that opens the last part of a multipart/mixed
LastOpen == CHOOSE i \in 1..Len(document) :
              document[i] = 10 /\ \A j \in (i + 1)..Len(document) : document[j] # 10

\* C26: a Content-Disposition header sets the target of its own part only.
\* When a multipart/mixed document is consumed whose parts all begin with
\* Content-Type or have no header, the last part, if it is not the first and
\* has no Content-Disposition, is filed as an attachment whatever the
\* Content-Disposition of the parts before it.
C26_DispositionOnePart ==
  /\ Consumed /\ Root(3) /\ ~HasLine(5)
  /\ \A i \in 5..Len(document) : document[i] # 1
  /\ \A j \in LastOpen..Len(document) : document[j] # 8
  /\ Len(Message.parts) >= 2
  => /\ Message.attachments # <<>>
     /\ Message.attachments[Len(Message.attachments)] = Len(Message.parts) - 1
     /\ \A i \in 1..Len(Message.inlines) : Message.inlines[i] # Len(Message.parts) - 1
     /\ \A i \in 1..Len(Message.other) : Message.other[i] # Len(Message.parts) - 1

\* The number of the first empty line of the document
FirstEmptyLine == CHOOSE i \in 1..Len(document) :
                    document[i] = 9 /\ \A j \in 1..(i - 1) : document[j] # 9

\* C27: when a document that is not a multipart, with its header ended by
\* the empty line, is consumed, the message has one part, which is top, and
\* text when it has no content type or text/plain; the body of the part starts
\* at the BodyStart offset and its end is the number of bytes written, which
\* is not less than the start of the body.
C27_SinglePart ==
  Consumed /\ document \in SimpleDocuments /\ HasLine(9) =>
    /\ Len(Message.parts) = 1
    /\ Message.top = 0
    /\ is_content_text(Message.parts[1].content_type) => Message.text = Option_Some(0)
    /\ Message.parts[1].body_start = BytesOf(FirstEmptyLine)
    /\ Message.parts[1].end = BytesOf(Len(document))
    /\ Message.parts[1].end >= Message.parts[1].body_start

\* ---------------------------------------------------------------------------
\* mxdns/src/lib.rs: blocklist check and forward-confirmed reverse DNS.  The
\* name servers are the environment: the response to a query is an error or
\* the records of the answer section, in order.  A Result is
\* [ok |-> TRUE, val |-> v] or [ok |-> FALSE, err |-> e].
\* ---------------------------------------------------------------------------

Result_Ok(v) == [ok |-> TRUE, val |-> v]

Result_Err(e) == [ok |-> FALSE, err |-> e]

\* The address that is checked, another address, and the name of the PTR
\* record
ClientIp == "192.0.2.1"

OtherIp == "192.0.2.2"

ClientName == "mail.example.org."

Record_A(ip) == [type |-> "A", data |-> ip]

Record_PTR(name) == [type |-> "PTR", data |-> name]

Record_CNAME == [type |-> "CNAME", data |-> "alias.example.org."]

IpAddr_V4(ip) == [v |-> 4, addr |-> ip]

\* An IPv6 address, with the IPv4 address it maps to if it has one
IpAddr_V6(ipv4) == [v |-> 6, ipv4 |-> ipv4]

\* Convert an ip address into a Ipv4Addr
to_ipv4(ip) ==
  IF ip.v = 4
  THEN Result_Ok(ip.addr)
  ELSE IF ip.ipv4.some
       THEN Result_Ok(ip.ipv4.val)
       ELSE Result_Err("Cannot convert Ipv6 address to Ipv4 address")

\* The first record of the answer, if the query succeeded and the record has
\* the type asked for; an error of the query is passed on
first_record(response, type) ==
  IF ~response.ok
  THEN response
  ELSE Result_Ok(IF response.val # <<>> /\ response.val[1].type = type
                 THEN Option_Some(response.val[1].data)
                 ELSE Option_None)

\* Lookup the IP address for a given fqdn, given the response to the query
lookup_ip(response) == first_record(response, "A")

\* Reverse lookup using the given inaddr-arpa fqdn
lookup_ptr(response) == first_record(response, "PTR")

\* Queries blocklists for the given address: responses[i] is the response
\* to the query for the i-th configured blocklist
on_blocklists(responses, addr) ==
  IF responses = <<>>
  THEN <<>>
  ELSE IF ~to_ipv4(addr).ok
       THEN << to_ipv4(addr) >>
       ELSE [i \in 1..Len(responses) |->
               bind(lookup_ip(responses[i]), LAMBDA r :
                 IF r.ok THEN Result_Ok(r.val.some) ELSE r)]

\* is_blocked that returns the error of a lookup unless a list has the
\* address
is_blocked_any_error(results) ==
  IF results = <<>>
  THEN Result_Ok(FALSE)
  ELSE IF \E i \in 1..Len(results) : results[i].ok /\ results[i].val
       THEN Result_Ok(TRUE)
       ELSE IF \E i \in 1..Len(results) : ~results[i].ok
            THEN results[CHOOSE i \in 1..Len(results) :
                       ~results[i].ok /\ \A j \in (i + 1)..Len(results) : results[j].ok]
            ELSE Result_Ok(FALSE)

\* Returns true if the address is on any of the blocklists; results is the
\* result of on_blocklists
is_blocked(results) ==
  IF results = <<>>
  THEN Result_Ok(FALSE)
  ELSE IF \A i \in 1..Len(results) : ~results[i].ok
       THEN results[Len(results)]
       ELSE Result_Ok(\E i \in 1..Len(results) : results[i].ok /\ results[i].val)

\* Does a reverse DNS lookup on the given ip address, given the response to
\* the PTR query
reverse_dns(ip, ptr_response) ==
  IF ~to_ipv4(ip).ok THEN to_ipv4(ip) ELSE lookup_ptr(ptr_response)

FCrDNS_NoReverse == [fcrdns |-> "NoReverse"]

FCrDNS_UnConfirmed(fqdn) == [fcrdns |-> "UnConfirmed", fqdn |-> fqdn]

FCrDNS_Confirmed(fqdn) == [fcrdns |-> "Confirmed", fqdn |-> fqdn]

\* Does a Forward Confirmed Reverse DNS check on the given ip address, given
\* the responses to the PTR query and to the A query for the name found
fcrdns(ip, ptr_response, a_response) ==
  IF ~to_ipv4(ip).ok
  THEN to_ipv4(ip)
  ELSE bind(reverse_dns(ip, ptr_response), LAMBDA fqdn :
         IF ~fqdn.ok
         THEN fqdn
         ELSE IF ~fqdn.val.some
              THEN Result_Ok(FCrDNS_NoReverse)
              ELSE bind(lookup_ip(a_response), LAMBDA forward :
                     IF ~forward.ok
                     THEN forward
                     ELSE IF forward.val.some /\ forward.val.val = to_ipv4(ip).val
                          THEN Result_Ok(FCrDNS_Confirmed(fqdn.val.val))
                          ELSE Result_Ok(FCrDNS_UnConfirmed(fqdn.val.val))))

\* The most blocklists configured
MaxLists == 2

\* The errors of a query
DnsErrors == { "timeout", "refused" }

\* The responses to the A query of a blocklist
ListResponses ==
  { Result_Err(e) : e \in DnsErrors } \cup
  { Result_Ok(a) : a \in { <<>>, << Record_A("127.0.0.2") >>,
                           << Record_CNAME, Record_A("127.0.0.2") >> } }

\* The responses to a PTR query
PtrResponses ==
  { Result_Err("timeout") } \cup
  { Result_Ok(a) : a \in { <<>>, << Record_PTR(ClientName) >>,
                           << Record_CNAME, Record_PTR(ClientName) >> } }

\* The responses to the A query for the name of the PTR record
AResponses ==
  { Result_Err("timeout") } \cup
  { Result_Ok(a) : a \in { <<>>, << Record_A(ClientIp) >>, << Record_A(OtherIp) >>,
                           << Record_A(ClientIp), Record_A(OtherIp) >>,
                           << Record_A(OtherIp), Record_A(ClientIp) >>,
                           << Record_CNAME, Record_A(ClientIp) >> } }

\* The addresses a caller may pass
Addresses ==
  { IpAddr_V4(ClientIp), IpAddr_V6(Option_Some(ClientIp)), IpAddr_V6(Option_None) }

\* The queries of a call and their responses: the address, the responses
\* for the blocklists, and the responses to the PTR and to the A query
Queries(addr, lists, ptr, a) == [addr |-> addr, lists |-> lists, ptr |-> ptr, a |-> a]

NotAsked == Result_Ok(<<>>)

\* MxDns::with_dns; no call yet
InitDns ==
  /\ NoSession /\ NoMime /\ NoServer /\ NoStore
  /\ dns = Queries(IpAddr_V4(ClientIp), <<>>, NotAsked, NotAsked)
  /\ mxdns = [call |-> "with_dns"]

\* MxDns::is_blocked(addr) with some blocklists configured and some
\* responses of their name servers
IsBlocked ==
  \E addr \in Addresses :
    \E lists \in UNION { [1..n -> ListResponses] : n \in 0..MaxLists } :
      /\ dns' = Queries(addr, lists, NotAsked, NotAsked)
      /\ mxdns' = [call |-> "is_blocked", ret |-> is_blocked(on_blocklists(lists, addr))]
      /\ UNCHANGED << sessionVars, mimeVars, serverVars, storeVars >>

\* MxDns::fcrdns(addr) with some responses to its two queries
Fcrdns ==
  \E addr \in Addresses :
    \E ptr \in PtrResponses :
      \E a \in AResponses :
        /\ dns' = Queries(addr, <<>>, ptr, a)
        /\ mxdns' = [call |-> "fcrdns", ret |-> fcrdns(addr, ptr, a)]
        /\ UNCHANGED << sessionVars, mimeVars, serverVars, storeVars >>

NextDns == IsBlocked \/ Fcrdns

SpecDns == InitDns /\ [][NextDns]_vars

\* ---------------------------------------------------------------------------
\* Properties of MxDns
\* ---------------------------------------------------------------------------

\* The result of the query of each blocklist in the last call of is_blocked
ListResults == on_blocklists(dns.lists, dns.addr)

AnyListed == \E i \in 1..Len(ListResults) : ListResults[i].ok /\ ListResults[i].val

AnyLookupError == \E i \in 1..Len(ListResults) : ~ListResults[i].ok

AllLookupsError == \A i \in 1..Len(ListResults) : ~ListResults[i].ok

\* C28 as claimed: a blocklist check answers blocked when a list has the
\* address, an error when a lookup failed and no list has the address, and
\* not blocked when no list is configured.
C28_AnyErrorIsError ==
  mxdns.call = "is_blocked" =>
    /\ AnyListed => mxdns.ret = Result_Ok(TRUE)
    /\ AnyLookupError /\ ~AnyListed => ~mxdns.ret.ok
    /\ dns.lists = <<>> => mxdns.ret = Result_Ok(FALSE)

\* C28 as the code has it: a blocklist check answers blocked when a list
\* has the address; the error of the last lookup when every lookup failed; not
\* blocked when some lookup succeeded and no list has the address, whether
\* other lookups failed or not; and not blocked when no list is configured.
C28_AllErrorsIsError ==
  mxdns.call = "is_blocked" =>
    /\ AnyListed => mxdns.ret = Result_Ok(TRUE)
    /\ ListResults # <<>> /\ AllLookupsError => mxdns.ret = ListResults[Len(ListResults)]
    /\ ~AllLookupsError /\ ~AnyListed => mxdns.ret = Result_Ok(FALSE)
    /\ dns.lists = <<>> => mxdns.ret = Result_Ok(FALSE)

\* One lookup failed, the other found the address not listed: not blocked
C28_Witness ==
  /\ mxdns.call = "is_blocked"
  /\ Len(ListResults) = 2
  /\ ~ListResults[1].ok
  /\ ListResults[2] = Result_Ok(FALSE)
  /\ mxdns.ret = Result_Ok(FALSE)

\* The addresses of the A records of a response
ARecords(response) ==
  { response.val[i].data : i \in { j \in 1..Len(response.val) : response.val[j].type = "A" } }

\* C29: FCrDNS of an address answers NoReverse when the PTR query has no
\* answer; when it has a PTR record it answers Confirmed with the name of the
\* record if the address is among the A records of that name, at whatever
\* position, and UnConfirmed with the name if it is not.
C29_ForwardConfirmed ==
  mxdns.call = "fcrdns" /\ to_ipv4(dns.addr).ok /\ dns.ptr.ok /\ dns.a.ok =>
    /\ dns.ptr.val = <<>> => mxdns.ret = Result_Ok(FCrDNS_NoReverse)
    /\ dns.ptr.val # <<>> /\ dns.ptr.val[1].type = "PTR" =>
         IF to_ipv4(dns.addr).val \in ARecords(dns.a)
         THEN mxdns.ret = Result_Ok(FCrDNS_Confirmed(dns.ptr.val[1].data))
         ELSE mxdns.ret = Result_Ok(FCrDNS_UnConfirmed(dns.ptr.val[1].data))

\* ---------------------------------------------------------------------------
\* mailin-embedded: RunningServer (src/mailin-embedded/src/running.rs)
\* ---------------------------------------------------------------------------

\* Server::new: four worker threads in the pool
num_threads == 4

\* Connections that clients make to the listener
MaxClients == 2

\* A connection in the backlog of the listener; is_wake_up tells the
\* connection that stop makes from those of the clients
TcpStream_connect(is_wake_up) == [wake_up |-> is_wake_up]

\* An item of listener.incoming(): a stream or an error of accept, with the
\* value the stop flag had when accept returned
incoming_item(is_ok, stop_flag) == [ok |-> is_ok, after_stop |-> stop_flag]

\* RunningServer::serve: the listener is bound, the stop flag is false, the
\* background thread waits in listener.incoming(), the pool is empty. The
\* fields clients, handed_after_stop and accepted_after_stop observe the
\* number of client connections made, whether pool.execute got a connection
\* accepted after the flag was set, and how many items the loop took after
\* the flag was set.
serve ==
  [ stop |-> FALSE,
    caller |-> "serving",
    run |-> "incoming",
    err |-> FALSE,
    backlog |-> <<>>,
    conn |-> Option_None,
    queued |-> 0,
    active |-> 0,
    finished |-> 0,
    clients |-> 0,
    handed_after_stop |-> FALSE,
    accepted_after_stop |-> 0,
    connected |-> Option_None ]

\* The listener is owned by the closure of the background thread: it is open
\* until run has returned
listening == server.run # "finished"

InitStop ==
  /\ NoSession /\ NoMime /\ NoDns /\ NoStore
  /\ server = serve

\* A client connects to the listening address
ClientConnect ==
  /\ listening
  /\ server.clients < MaxClients
  /\ server' = [server EXCEPT !.backlog = Append(@, TcpStream_connect(FALSE)),
                              !.clients = @ + 1]
  /\ UNCHANGED << sessionVars, mimeVars, dnsVars, storeVars >>

\* run, line 125: listener.incoming() yields the next connection
incoming_next ==
  /\ server.run = "incoming"
  /\ server.backlog # <<>>
  /\ server' = [server EXCEPT !.backlog = Tail(@),
                              !.conn = Option_Some(incoming_item(TRUE, server.stop)),
                              !.accepted_after_stop = IF server.stop THEN @ + 1 ELSE @,
                              !.run = "loop"]
  /\ UNCHANGED << sessionVars, mimeVars, dnsVars, storeVars >>

\* run, line 125: accept fails (a connection aborted by its client, no file
\* descriptor left) and listener.incoming() yields the error; once only
incoming_error ==
  /\ server.run = "incoming"
  /\ ~server.err
  /\ server' = [server EXCEPT !.conn = Option_Some(incoming_item(FALSE, server.stop)),
                              !.accepted_after_stop = IF server.stop THEN @ + 1 ELSE @,
                              !.err = TRUE,
                              !.run = "loop"]
  /\ UNCHANGED << sessionVars, mimeVars, dnsVars, storeVars >>

\* run, lines 126-134, the body of the loop: break when the stop flag is set;
\* return the error of accept (conn?), which ends the thread without
\* pool.join and closes the listener; else hand the stream to the pool
run_loop ==
  /\ server.run = "loop"
  /\ server' =
       IF server.stop
       THEN [server EXCEPT !.conn = Option_None, !.run = "pool.join"]
       ELSE IF ~server.conn.val.ok
            THEN [server EXCEPT !.conn = Option_None, !.run = "finished"]
            ELSE [server EXCEPT !.conn = Option_None,
                                !.queued = @ + 1,
                                !.handed_after_stop = @ \/ server.conn.val.after_stop,
                                !.run = "incoming"]
  /\ UNCHANGED << sessionVars, mimeVars, dnsVars, storeVars >>

\* A worker of the pool takes a queued job: handle_connection starts
pool_worker ==
  /\ server.queued > 0
  /\ server.active < num_threads
  /\ server' = [server EXCEPT !.queued = @ - 1, !.active = @ + 1]
  /\ UNCHANGED << sessionVars, mimeVars, dnsVars, storeVars >>

\* handle_connection returns: the session is over (QUIT, end of stream, an
\* error or a timeout of five minutes on the stream)
handle_connection ==
  /\ server.active > 0
  /\ server' = [server EXCEPT !.active = @ - 1, !.finished = @ + 1]
  /\ UNCHANGED << sessionVars, mimeVars, dnsVars, storeVars >>

\* run, lines 135-136: pool.join returns when no job is queued or active, and
\* the thread ends
pool_join ==
  /\ server.run = "pool.join"
  /\ server.queued = 0 /\ server.active = 0
  /\ server' = [server EXCEPT !.run = "finished"]
  /\ UNCHANGED << sessionVars, mimeVars, dnsVars, storeVars >>

\* stop, line 85: the flag is set
stop_store ==
  /\ server.caller = "serving"
  /\ server' = [server EXCEPT !.stop = TRUE, !.caller = "stored"]
  /\ UNCHANGED << sessionVars, mimeVars, dnsVars, storeVars >>

\* stop, lines 87-89: the connection that wakes the accept loop; it fails,
\* and this is only logged, when the listener is closed
stop_connect ==
  /\ server.caller = "stored"
  /\ server' = IF listening
               THEN [server EXCEPT !.backlog = Append(@, TcpStream_connect(TRUE)),
                                   !.connected = Option_Some(TRUE),
                                   !.caller = "connected"]
               ELSE [server EXCEPT !.connected = Option_Some(FALSE),
                                   !.caller = "connected"]
  /\ UNCHANGED << sessionVars, mimeVars, dnsVars, storeVars >>

\* stop, lines 90-92: join returns when the background thread has ended
stop_join ==
  /\ server.caller = "connected"
  /\ server.run = "finished"
  /\ server' = [server EXCEPT !.caller = "returned"]
  /\ UNCHANGED << sessionVars, mimeVars, dnsVars, storeVars >>

NextStop ==
  \/ ClientConnect
  \/ incoming_next
  \/ incoming_error
  \/ run_loop
  \/ pool_worker
  \/ handle_connection
  \/ pool_join
  \/ stop_store
  \/ stop_connect
  \/ stop_join

SpecStop == InitStop /\ [][NextStop]_vars

\* The threads are scheduled and every session ends
FairStop ==
  /\ SpecStop
  /\ WF_vars(incoming_next) /\ WF_vars(run_loop) /\ WF_vars(pool_join)
  /\ WF_vars(pool_worker) /\ WF_vars(handle_connection)
  /\ WF_vars(stop_connect) /\ WF_vars(stop_join)

\* No connection accepted after the stop flag was set reaches pool.execute
NoHandOffAfterStop == server.handed_after_stop = FALSE

\* The loop takes at most one item after the flag was set, and has left the
\* loop when stop returns
LoopExits ==
  /\ server.accepted_after_stop <= 1
  /\ server.caller = "returned" => server.run = "finished"

\* When stop returns no session of the pool is queued or running
SessionsFinished ==
  server.caller = "returned" => server.queued = 0 /\ server.active = 0

\* stop returns
StopReturns == server.caller = "stored" ~> server.caller = "returned"

\* C30: RunningServer::stop terminates the server: no connection accepted
\* after the stop flag was set is handed to a session handler, the accept
\* loop exits after the wake-up connection, and when stop returns the
\* sessions of the thread pool have finished.
C30_StopTerminates ==
  /\ NoHandOffAfterStop
  /\ LoopExits
  /\ SessionsFinished

\* The line that the step writes to the parser, and the events the step sends
WrittenLine == MimeLines[document[nwritten + 1]]

NewEvents == SubSeq(parser'.handler, Len(parser.handler) + 1, Len(parser'.handler))

\* C31: a line written in the Body state closes the multipart (PartEnd,
\* MultipartEnd, the stack popped, state Header) only when it is exactly the
\* boundary followed by "--" and CRLF, opens the next part (PartEnd, state
\* PartStart) only when it is exactly the boundary followed by CRLF, and is
\* sent as a Body event otherwise, also when it merely begins with the
\* boundary.
C31_ExactBoundary ==
  [][ nwritten' = nwritten + 1 /\ parser.state = "Body" =>
        IF parser.boundary.some /\ WrittenLine = parser.boundary.val \o <<"-", "-", CR, LF>>
        THEN /\ NewEvents = << Event_PartEnd(parser.offset), Event_MultipartEnd >>
             /\ parser'.state = "Header"
             /\ parser'.multipart_stack =
                  SubSeq(parser.multipart_stack, 1, Len(parser.multipart_stack) - 1)
        ELSE IF parser.boundary.some /\ WrittenLine = parser.boundary.val \o <<CR, LF>>
             THEN /\ NewEvents = << Event_PartEnd(parser.offset) >>
                  /\ parser'.state = "PartStart"
             ELSE /\ NewEvents = << Event_Body(WrittenLine) >>
                  /\ parser'.state = "Body" ]_vars

\* The step sends the Header event of a Content-Type with a multipart type
MultipartContentType ==
  \E i \in 1..Len(NewEvents) :
    /\ NewEvents[i].ev = "Header"
    /\ NewEvents[i].header.h = "ContentType"
    /\ mime_type(NewEvents[i].header.mime_type).mime = "Multipart"

\* How many multipart Content-Type headers and closing delimiters were seen
MultipartHeaders ==
  Cardinality({ i \in 1..Len(Events) :
                  /\ Events[i].ev = "Header"
                  /\ Events[i].header.h = "ContentType"
                  /\ mime_type(Events[i].header.mime_type).mime = "Multipart" })

\* C32: the multipart stack grows only in a step that handles a Content-Type
\* header with a multipart type and shrinks only in a step that handles a
\* closing delimiter, so a Content-Type that is not a multipart pushes
\* nothing and the stack is never deeper than the multiparts that are open.
C32_StackDepth ==
  [][ /\ Len(parser'.multipart_stack) > Len(parser.multipart_stack) =>
           MultipartContentType
      /\ Len(parser'.multipart_stack) < Len(parser.multipart_stack) =>
           \E i \in 1..Len(NewEvents) : NewEvents[i] = Event_MultipartEnd
      /\ (Len(parser.multipart_stack) <= MultipartHeaders - Count("MultipartEnd"))' ]_vars

\* The parser hands the line it is written to its header buffer
HeaderState == parser.state \in {"Start", "Header", "MultipartHeader", "PartStart"}

\* C33: while a header line is buffered, a line that begins with a space or
\* a horizontal tab is joined to it (the line ending before it removed), its
\* length is added to the count of the logical line, and nothing is handled
\* yet; a line that begins with another byte ends the logical line, which is
\* handled with the sum of the lengths of its lines, and is buffered in turn.
C33_Folding ==
  [][ /\ nwritten' = nwritten + 1
      /\ HeaderState
      /\ parser.header_buffer.has_value
      /\ WrittenLine # <<CR, LF>>
      => IF WrittenLine[1] \in {" ", HTAB}
         THEN /\ parser'.header_buffer =
                   [has_value |-> TRUE,
                    line |-> SubSeq(parser.header_buffer.line, 1,
                                    Len(parser.header_buffer.line) - 2) \o WrittenLine,
                    length |-> parser.header_buffer.length + Len(WrittenLine)]
              /\ NewEvents = <<>>
              /\ parser'.offset = parser.offset
              /\ ~parser'.err
         ELSE /\ parser'.header_buffer =
                   [has_value |-> TRUE, line |-> WrittenLine, length |-> Len(WrittenLine)]
              /\ ~parser'.err => parser'.offset = parser.offset + parser.header_buffer.length
    ]_vars

\* The bytes of the chunks chunks[1..n], one after the other
RECURSIVE Concat(_, _)
Concat(chunks, n) == IF n = 0 THEN <<>> ELSE Concat(chunks, n - 1) \o chunks[n]

\* The bytes written to the parser so far
WrittenBytes == Concat([i \in 1..nwritten |-> MimeLines[document[i]]], nwritten)

\* C37: as long as no write has failed, the bytes handed to the inner writer
\* are the bytes written to the parser, each once and in the same order.
C37_PassThrough ==
  ~parser.err => Concat(parser.writer, Len(parser.writer)) = WrittenBytes

\* The event is sent for a delimiter line or for the end of the input
BoundaryEvent(e) == e.ev \in {"PartStart", "PartEnd", "MultipartStart", "MultipartEnd", "End"}

\* The index of the first such event after the event i (0 if none yet)
NextBoundary(i) ==
  IF \E j \in (i + 1)..Len(Events) : BoundaryEvent(Events[j])
  THEN Min({ j \in (i + 1)..Len(Events) : BoundaryEvent(Events[j]) })
  ELSE 0

\* The event is the Content-Type header of a multipart
IsMultipartHeader(e) ==
  /\ e.ev = "Header"
  /\ e.header.h = "ContentType"
  /\ mime_type(e.header.mime_type).mime = "Multipart"

\* C38: a PartStart of a part that is not itself a multipart is followed,
\* before the events of the next delimiter line, by the BodyStart of the
\* part, whether the part has a Content-Type header or only other header
\* lines, and the events of that delimiter line begin with the PartEnd of
\* the part.
C38_PartHasBody ==
  \A i \in 1..Len(Events) :
    /\ Events[i].ev = "PartStart"
    /\ NextBoundary(i) # 0
    /\ \A k \in (i + 1)..(NextBoundary(i) - 1) : ~IsMultipartHeader(Events[k])
    => /\ \E k \in (i + 1)..(NextBoundary(i) - 1) : Events[k].ev = "BodyStart"
       /\ Events[NextBoundary(i)].ev \in {"PartEnd", "End"}

\* ---------------------------------------------------------------------------
\* mailin-server: MailStore (src/mailin-server/src/store.rs)
\* ---------------------------------------------------------------------------

\* The sessions that deliver at the same time, each with its clone of the
\* MailStore; the clones share the index and the directory
MaxSessions == 2

Sessions == 1..MaxSessions

\* What state.parser.end() returns: a message whose top part has a Subject,
\* one whose top part has none, one without any part (nothing was parsed)
Mails == { "Subject", "NoSubject", "NoPart" }

\* MailStore::new and its clone per session: no message started, the index
\* lock free.  pc is the position of the session's thread; file is where the
\* message file is; read_guard tells whether the thread holds a read guard
\* of index.writer; ret is what end_message returned, response what data_end
\* answered.
MailStore_new ==
  [ rwlock |-> [readers |-> 0, writer |-> FALSE],
    session |-> [t \in Sessions |->
                   [pc |-> "idle", message |-> "", file |-> "none",
                    read_guard |-> FALSE, ret |-> "", response |-> Option_None]] ]

InitStore ==
  /\ NoSession /\ NoMime /\ NoDns /\ NoServer
  /\ store = MailStore_new

\* MailStore::start_message, and the writes of the message that follow: the
\* file is created in tmp (or File::create fails and no message is started)
start_message(t) ==
  /\ store.session[t].pc = "idle"
  /\ \E created \in BOOLEAN :
       \E m \in Mails :
         store' = IF created
                  THEN [store EXCEPT !.session[t].pc = "writing",
                                     !.session[t].message = m,
                                     !.session[t].file = "tmp"]
                  ELSE [store EXCEPT !.session[t].pc = "done",
                                     !.session[t].response = Option_Some(INTERNAL_ERROR)]
  /\ UNCHANGED << sessionVars, mimeVars, dnsVars, serverVars >>

\* end_message, lines 77-82: the state is taken, the parser ended, and
\* commit_file renames the file from tmp to new, or fails
commit_file(t) ==
  /\ store.session[t].pc = "writing"
  /\ \E renamed \in BOOLEAN :
       store' = IF renamed
                THEN [store EXCEPT !.session[t].pc = "commit_index",
                                   !.session[t].file = "new"]
                ELSE [store EXCEPT !.session[t].pc = "returned",
                                   !.session[t].ret = "Err"]
  /\ UNCHANGED << sessionVars, mimeVars, dnsVars, serverVars >>

\* commit_index, lines 102-112: InvalidData without a top part or a Subject;
\* else the read guard of index.writer is taken, when no thread holds the
\* write guard, and the document is added
commit_index_read(t) ==
  /\ store.session[t].pc = "commit_index"
  /\ store' =
       IF store.session[t].message # "Subject"
       THEN [store EXCEPT !.session[t].pc = "returned", !.session[t].ret = "Err"]
       ELSE [store EXCEPT !.session[t].pc = "write",
                          !.session[t].read_guard = TRUE,
                          !.rwlock.readers = @ + 1]
  /\ store.session[t].message = "Subject" => ~store.rwlock.writer
  /\ UNCHANGED << sessionVars, mimeVars, dnsVars, serverVars >>

\* commit_index, lines 113-114: the write guard of index.writer is requested
\* while the read guard of line 109 is still alive (the second `writer`
\* shadows the first, it does not drop it).  With a read guard of its own
\* the thread waits for itself for ever, or RwLock::write panics (either is
\* allowed by the standard library); without one it would commit and return.
commit_index_write(t) ==
  /\ store.session[t].pc = "write"
  /\ IF store.session[t].read_guard
     THEN \E outcome \in { "deadlock", "panic" } :
            store' = IF outcome = "deadlock"
                     THEN [store EXCEPT !.session[t].pc = "deadlock"]
                     ELSE [store EXCEPT !.session[t].pc = "panic",
                                        !.session[t].read_guard = FALSE,
                                        !.rwlock.readers = @ - 1]
     ELSE /\ store.rwlock.readers = 0 /\ ~store.rwlock.writer
          /\ \E committed \in BOOLEAN :
               store' = [store EXCEPT !.session[t].pc = "returned",
                                      !.session[t].ret =
                                         IF committed THEN "Ok" ELSE "Err"]
  /\ UNCHANGED << sessionVars, mimeVars, dnsVars, serverVars >>

\* Handler::data_end (main.rs): OK when end_message returned Ok, else
\* INTERNAL_ERROR
data_end(t) ==
  /\ store.session[t].pc = "returned"
  /\ store' = [store EXCEPT !.session[t].pc = "done",
                            !.session[t].response =
                               Option_Some(IF store.session[t].ret = "Ok"
                                           THEN OK ELSE INTERNAL_ERROR)]
  /\ UNCHANGED << sessionVars, mimeVars, dnsVars, serverVars >>

NextStore ==
  \E t \in Sessions :
    \/ start_message(t)
    \/ commit_file(t)
    \/ commit_index_read(t)
    \/ commit_index_write(t)
    \/ data_end(t)

SpecStore == InitStore /\ [][NextStore]_vars

\* C39: committing a message never blocks for ever: a thread requests the
\* write guard of the index only when it holds no read guard of it, so no
\* thread ends in commit_index waiting for itself (or panicking), alone or
\* beside another session that commits.
C39_EndMessageReturns ==
  \A t \in Sessions :
    /\ store.session[t].pc = "write" => ~store.session[t].read_guard
    /\ store.session[t].pc \notin { "deadlock", "panic" }

\* C40: when end_message has returned an error (and data_end answers
\* INTERNAL_ERROR) the message file is still in tmp; it is in new only when
\* end_message returned Ok.
C40_ErrorLeavesTmp ==
  \A t \in Sessions :
    store.session[t].pc \in { "returned", "done" } =>
      /\ store.session[t].ret = "Err" => store.session[t].file # "new"
      /\ store.session[t].file = "new" => store.session[t].ret = "Ok"

\* ---------------------------------------------------------------------------
\* Authentication before mail

Called(fns) == \E k \in 1..Len(calls) : calls[k].fn \in fns

AuthPlainOk ==
  \E k \in 1..Len(calls) : calls[k].fn = "auth_plain" /\ calls[k].result = "Ok"

\* C34: in a session built with an auth mechanism, no step invokes
\* handler.mail, handler.rcpt or handler.data unless the session is
\* authenticated, and the session becomes authenticated only in a step in which
\* handler.auth_plain returned Ok; so no mail, rcpt or data callback precedes
\* an accepted auth_plain.
C34_AuthBeforeMail ==
  [][ auth_mechanisms # <<>> =>
        /\ Called({"mail", "rcpt", "data"})' => auth = "Authenticated"
        /\ auth # "Authenticated" /\ auth' = "Authenticated" => AuthPlainOk' ]_vars

C34_Witness ==
  /\ auth_mechanisms # <<>>
  /\ auth = "Authenticated"
  /\ Called({"data"})
  /\ calls[1].result = "Ok"

\* ---------------------------------------------------------------------------
\* STARTTLS

\* C35: a STARTTLS line is accepted (220 with UpgradeTls, phase Idle) only
\* while the TLS posture is Inactive; in Hello and in HelloAuth a STARTTLS line
\* sent while TLS is unavailable or already active is answered 503 and leaves
\* the phase as it was; and the TLS notification never arrives in a session
\* whose TLS is already active.  Line 12 is "starttls".
C35_StartTlsOnlyInactive ==
  [][ /\ res'.action = "UpgradeTls" => tls = "Inactive"
      /\ line' = 12 /\ smtp.id \in { "Hello", "HelloAuth" } =>
           IF tls = "Inactive"
           THEN res' = START_TLS /\ res'.action = "UpgradeTls" /\ smtp' = Idle
           ELSE res'.code = 503 /\ smtp' = smtp
      /\ line' = TlsNotified => tls = "Inactive" /\ tls' = "Active" ]_vars

\* ---------------------------------------------------------------------------
\* A client that wants to send mail: it greets, upgrades to TLS when the session
\* offers STARTTLS, authenticates when an auth mechanism is configured, and
\* sends MAIL; before any of these lines it may send a NOOP.  The handler
\* accepts every callback the lines lead to.
\* ---------------------------------------------------------------------------

Route(mechanisms, start_tls) ==
  IF mechanisms = <<>> THEN << 1, 2 >>
  ELSE IF start_tls THEN << 8, 12, 8, 13, 2 >>
  ELSE << 8, 13, 2 >>

Routes(mechanisms, start_tls) ==
  { Concat([ k \in 1..Len(Route(mechanisms, start_tls)) |->
               IF idle[k] THEN << 10, Route(mechanisms, start_tls)[k] >>
               ELSE << Route(mechanisms, start_tls)[k] >> ],
           Len(Route(mechanisms, start_tls)))
    : idle \in [1..Len(Route(mechanisms, start_tls)) -> BOOLEAN] }

InitRoute ==
  /\ Build /\ handler = "AuthHandler"
  /\ script \in Routes(auth_mechanisms, start_tls_extension)
  /\ pos = 0 /\ replies = <<>> /\ running = TRUE
  /\ NoMime /\ NoDns /\ NoServer /\ NoStore

SpecRoute == InitRoute /\ [][NextScript]_vars

\* Whatever the client sends, a session with an auth mechanism and without
\* STARTTLS stays unauthenticated and never enters Hello, Auth or Mail
AuthWithoutTlsStuck ==
  auth_mechanisms # <<>> /\ tls = "Unavailable" =>
    auth = "RequiresAuth" /\ smtp.id \in { "Idle", "HelloAuth", "Invalid" }

====
